---- MODULE Spec2Model ----
(***************************************************************************)
(* Model of the codebox sandbox package: the archive codec                 *)
(* (ExtractTarToDir, CreateTarFromDirWithExcludes, shouldExcludeFile) and  *)
(* the Execute pipeline of the Docker, Podman and Local executors.         *)
(*                                                                         *)
(* Strings are sequences of one-character strings, so that prefix,         *)
(* substring, split and glob operations are computed as the Go code        *)
(* computes them.                                                          *)
(***************************************************************************)
EXTENDS Integers, Sequences, FiniteSets, TLC

VARIABLES
    fs,       \* host filesystem: absolute path -> [kind, data]
    now,      \* wall clock as read by time.Now().UnixNano()
    calls,    \* per Execute call: the call's position and locals
    mode,     \* "exec" (Execute pipeline), "conc" (two calls), "tar" (codec),
              \* "live" (one call, no injected failure), "config" (startup)
    tarIn,    \* codec driver: the input (archive or directory tree)
    tarOut,   \* codec driver: the result of the last codec operation
    cfg,      \* the configuration config.New has unmarshalled
    app       \* startup: how far config.New and NewExecutor have come

vars == <<fs, now, calls, mode, tarIn, tarOut, cfg, app>>

(***************************************************************************)
(* Bounds                                                                  *)
(***************************************************************************)
NumCalls == 2          \* concurrent Execute calls in the "conc" runs
MaxClock == 1          \* clock ticks observed
NumTempNames == 2      \* random suffixes os.MkdirTemp can draw
MaxEntries == 2        \* entries per generated archive
MaxArtifactSizeMB == 1 \* Config.MaxArtifactSizeMB of the executor
MaxTimeoutSec == 2     \* largest TimeoutSec of a request and of an executor
MaxPatterns == 2       \* exclude patterns per list
MaxEnvVars == 2        \* pairs in a language's environment map

(***************************************************************************)
(* strings                                                                 *)
(***************************************************************************)
\* v bound to the parameter of Body: a local variable of the code
With(v, Body(_)) == Body(v)

Slash == "/"
Dot == "."

\* strings.HasPrefix
HasPrefix(s, p) == Len(p) <= Len(s) /\ SubSeq(s, 1, Len(p)) = p

\* strings.HasSuffix
HasSuffix(s, p) == Len(p) <= Len(s) /\ SubSeq(s, Len(s) - Len(p) + 1, Len(s)) = p

\* strings.Contains
Contains(s, sub) ==
    \E i \in 1..(Len(s) - Len(sub) + 1) : SubSeq(s, i, i + Len(sub) - 1) = sub

\* strings.TrimSuffix
TrimSuffix(s, p) == IF HasSuffix(s, p) THEN SubSeq(s, 1, Len(s) - Len(p)) ELSE s

\* index of the first "/" of s at or after position i, Len(s)+1 when none
RECURSIVE NextSlash(_, _)
NextSlash(s, i) ==
    IF i > Len(s) THEN Len(s) + 1
    ELSE IF s[i] = Slash THEN i
    ELSE NextSlash(s, i + 1)

\* strings.Split(s, "/"): the segments between separators, empty ones kept
RECURSIVE SplitFrom(_, _)
SplitFrom(s, i) ==
    LET j == NextSlash(s, i)
    IN  IF j > Len(s) THEN <<SubSeq(s, i, Len(s))>>
        ELSE <<SubSeq(s, i, j - 1)>> \o SplitFrom(s, j + 1)

Split(s) == SplitFrom(s, 1)

\* strings.Join(segs, "/")
RECURSIVE JoinSlash(_)
JoinSlash(segs) ==
    IF Len(segs) = 0 THEN <<>>
    ELSE IF Len(segs) = 1 THEN segs[1]
    ELSE segs[1] \o <<Slash>> \o JoinSlash(Tail(segs))

(***************************************************************************)
(* path/filepath (Unix)                                                    *)
(***************************************************************************)
DotDot == <<Dot, Dot>>

\* filepath.IsAbs
IsAbs(p) == Len(p) > 0 /\ p[1] = Slash

\* the element stack filepath.Clean builds: "." and empty elements are
\* dropped, ".." removes the previous element, stays when there is none to
\* remove in a relative path, and is dropped at the root
RECURSIVE CleanStack(_, _, _)
CleanStack(segs, rooted, out) ==
    IF Len(segs) = 0 THEN out
    ELSE LET s == Head(segs)
             rest == Tail(segs)
         IN  IF s = <<>> \/ s = <<Dot>> THEN CleanStack(rest, rooted, out)
             ELSE IF s = DotDot
             THEN IF Len(out) > 0 /\ out[Len(out)] # DotDot
                  THEN CleanStack(rest, rooted, SubSeq(out, 1, Len(out) - 1))
                  ELSE IF rooted THEN CleanStack(rest, rooted, out)
                  ELSE CleanStack(rest, rooted, Append(out, s))
             ELSE CleanStack(rest, rooted, Append(out, s))

\* filepath.Clean
Clean(p) ==
    IF Len(p) = 0 THEN <<Dot>>
    ELSE With(JoinSlash(CleanStack(Split(p), IsAbs(p), <<>>)), LAMBDA body :
             IF IsAbs(p) THEN <<Slash>> \o body
             ELSE IF Len(body) = 0 THEN <<Dot>>
             ELSE body)

\* filepath.Join of two elements
Join(a, b) ==
    IF Len(a) = 0 /\ Len(b) = 0 THEN <<>>
    ELSE Clean(IF Len(a) = 0 THEN b
               ELSE IF Len(b) = 0 THEN a
               ELSE a \o <<Slash>> \o b)

\* index of the last "/" of s, 0 when none
RECURSIVE LastSlash(_, _)
LastSlash(s, i) ==
    IF i = 0 THEN 0
    ELSE IF s[i] = Slash THEN i
    ELSE LastSlash(s, i - 1)

\* filepath.Dir
Dir(p) == Clean(SubSeq(p, 1, LastSlash(p, Len(p))))

\* filepath.Base
RECURSIVE StripTrailingSlashes(_)
StripTrailingSlashes(p) ==
    IF Len(p) > 0 /\ p[Len(p)] = Slash
    THEN StripTrailingSlashes(SubSeq(p, 1, Len(p) - 1))
    ELSE p

Base(p) ==
    IF Len(p) = 0 THEN <<Dot>>
    ELSE LET q == StripTrailingSlashes(p)
         IN  IF Len(q) = 0 THEN <<Slash>>
             ELSE SubSeq(q, LastSlash(q, Len(q)) + 1, Len(q))

\* what filepath.Rel returns: the path and whether it is an error
RelResult(p, e) == [path |-> p, err |-> e]

\* the loop of filepath.Rel over the elements of base and targ; b and t are
\* the offsets bi and ti at the top of an iteration.  Yields b0, bi and t0
\* as the loop leaves them.
RECURSIVE RelScan(_, _, _, _)
RelScan(base, targ, b, t) ==
    IF ~(b < Len(base) /\ t < Len(targ)) THEN [b0 |-> b, bi |-> b, t0 |-> t]
    ELSE With(NextSlash(base, b + 1) - 1, LAMBDA bi :
         With(NextSlash(targ, t + 1) - 1, LAMBDA ti :
             IF SubSeq(targ, t + 1, ti) # SubSeq(base, b + 1, bi)
             THEN [b0 |-> b, bi |-> bi, t0 |-> t]
             ELSE RelScan(base, targ,
                          IF bi < Len(base) THEN bi + 1 ELSE bi,
                          IF ti < Len(targ) THEN ti + 1 ELSE ti)))

\* "..", then "/.." seps times
RECURSIVE UpPath(_)
UpPath(seps) == IF seps = 0 THEN DotDot ELSE UpPath(seps - 1) \o <<Slash>> \o DotDot

\* filepath.Rel(basepath, targpath): both paths are cleaned and compared
\* element by element
Rel(basepath, targpath) ==
    With(Clean(targpath), LAMBDA targ :
    With(Clean(basepath), LAMBDA cleaned :
        IF targ = cleaned THEN RelResult(<<Dot>>, FALSE)
        ELSE
        With(IF cleaned = <<Dot>> THEN <<>> ELSE cleaned, LAMBDA base :
            IF IsAbs(base) # IsAbs(targ) THEN RelResult(<<>>, TRUE)
            ELSE
            With(RelScan(base, targ, 0, 0), LAMBDA at :
                IF SubSeq(base, at.b0 + 1, at.bi) = DotDot
                THEN RelResult(<<>>, TRUE)
                ELSE IF at.b0 # Len(base)
                \* base elements left: up before down
                THEN RelResult(
                        UpPath(Cardinality({i \in (at.b0 + 1)..Len(base) :
                                               base[i] = Slash}))
                        \o (IF at.t0 # Len(targ)
                            THEN <<Slash>> \o SubSeq(targ, at.t0 + 1, Len(targ))
                            ELSE <<>>),
                        FALSE)
                ELSE RelResult(SubSeq(targ, at.t0 + 1, Len(targ)), FALSE)))))

\* p is dir or lies below dir
IsWithin(p, dir) ==
    \/ p = dir
    \/ dir = <<Slash>> /\ IsAbs(p)
    \/ HasPrefix(p, dir \o <<Slash>>)

(***************************************************************************)
(* byte order of the characters used, for the sorted directory listing of  *)
(* filepath.Walk and for the ranges of a glob character class              *)
(***************************************************************************)
Alphabet == <<"*", "-", ".", "/", "0", "1", "2", "3", "4", "5", "6", "7", "8",
              "9", "?", "A", "B", "C", "[", "\\", "]", "^", "_", "a", "b", "c",
              "d", "e", "f", "g", "h", "i", "j", "k", "l", "m", "n", "o", "p",
              "q", "r", "s", "t", "u", "v", "w", "x", "y", "z">>

Ord(c) == CHOOSE i \in 1..Len(Alphabet) : Alphabet[i] = c

\* a < b in byte-wise lexicographic order
RECURSIVE StrLess(_, _)
StrLess(a, b) ==
    IF Len(b) = 0 THEN FALSE
    ELSE IF Len(a) = 0 THEN TRUE
    ELSE IF Ord(a[1]) < Ord(b[1]) THEN TRUE
    ELSE IF Ord(a[1]) > Ord(b[1]) THEN FALSE
    ELSE StrLess(Tail(a), Tail(b))

\* the strings of S in increasing order (sort.Strings)
RECURSIVE SortStrings(_)
SortStrings(S) ==
    IF S = {} THEN <<>>
    ELSE LET m == CHOOSE x \in S : \A y \in S \ {x} : StrLess(x, y)
         IN  <<m>> \o SortStrings(S \ {m})

(***************************************************************************)
(* filesystem (RealFileSystem over os)                                     *)
(***************************************************************************)
Root == <<Slash>>

DirNode == [kind |-> "dir", data |-> <<>>]
RegNode(d) == [kind |-> "reg", data |-> d]
\* a symbolic link; data is what reading through the link yields
LinkNode(d) == [kind |-> "symlink", data |-> d]

FsExists(f, p) == p \in DOMAIN f
FsIsDir(f, p) == p \in DOMAIN f /\ f[p].kind = "dir"

FsPut(f, p, node) == [q \in DOMAIN f \cup {p} |-> IF q = p THEN node ELSE f[q]]

\* p and its ancestors below the root, outermost first
RECURSIVE PathChain(_)
PathChain(p) ==
    IF p = Root \/ p = <<Dot>> THEN <<>>
    ELSE Append(PathChain(Dir(p)), p)

RECURSIVE MkdirChain(_, _)
MkdirChain(f, chain) ==
    IF Len(chain) = 0 THEN [err |-> FALSE, fs |-> f]
    ELSE LET p == Head(chain)
         IN  IF FsExists(f, p)
             THEN IF f[p].kind = "dir" THEN MkdirChain(f, Tail(chain))
                  ELSE [err |-> TRUE, fs |-> f]
             ELSE MkdirChain(FsPut(f, p, DirNode), Tail(chain))

\* os.MkdirAll: creates path and the missing parents; fails when a
\* component exists and is not a directory
MkdirAll(f, path) == MkdirChain(f, PathChain(path))

\* a WriteFile that leaves an existing file as it is
WriteFileKeepingExisting(f, path, data) ==
    IF ~FsIsDir(f, Dir(path)) \/ FsIsDir(f, path)
    THEN [err |-> TRUE, fs |-> f]
    ELSE [err |-> FALSE,
          fs |-> IF FsExists(f, path) THEN f ELSE FsPut(f, path, RegNode(data))]

\* os.WriteFile: creates or truncates the file; fails when the parent is
\* missing or path is a directory.  The open follows a symbolic link: the
\* link stays and what is read through it is replaced.
WriteFile(f, path, data) ==
    IF ~FsIsDir(f, Dir(path)) \/ FsIsDir(f, path)
    THEN [err |-> TRUE, fs |-> f]
    ELSE [err |-> FALSE,
          fs |-> FsPut(f, path,
                       IF FsExists(f, path) /\ f[path].kind = "symlink"
                       THEN LinkNode(data) ELSE RegNode(data))]

\* os.RemoveAll: removes path and everything below it
RemoveAll(f, path) == [q \in {r \in DOMAIN f : ~IsWithin(r, path)} |-> f[q]]

\* the direct children of dir
Children(f, dir) == {p \in DOMAIN f : p # dir /\ p # Root /\ Dir(p) = dir}

(***************************************************************************)
(* archives                                                                *)
(*                                                                         *)
(* The bytes of a tar.gz are modelled by what the readers make of them:    *)
(* gz says whether the bytes are empty, not a gzip stream, or a gzip       *)
(* stream; entries are the headers tar.Reader.Next returns, in order; tail *)
(* says whether the stream then ends (io.EOF) or is corrupt; len is the    *)
(* number of bytes.                                                        *)
(***************************************************************************)
TarEntry(n, t, d) == [name |-> n, typeflag |-> t, data |-> d, short |-> FALSE]
\* a regular-file entry whose declared size exceeds the bytes that follow
ShortEntry(n, d) == [name |-> n, typeflag |-> "reg", data |-> d, short |-> TRUE]

TarGz(es, n) == [gz |-> "ok", entries |-> es, tail |-> "eof", len |-> n]
TruncatedTarGz(es, n) == [gz |-> "ok", entries |-> es, tail |-> "err", len |-> n]
NotGzip == [gz |-> "bad", entries |-> <<>>, tail |-> "eof", len |-> 1]
NoBytes == [gz |-> "empty", entries |-> <<>>, tail |-> "eof", len |-> 0]

(***************************************************************************)
(* ExtractTarToDir                                                         *)
(***************************************************************************)
FsOp(op, path, idx) == [op |-> op, path |-> path, entry |-> idx]

ExtractResult(e, f, ops) == [err |-> e, fs |-> f, ops |-> ops]

\* variant: only the absolute-path check is made
EntryPathErrorAbsOnly(name, destDir) ==
    IF IsAbs(name) THEN "absolute path not allowed" ELSE "nil"

\* variant: only the prefix check on the joined path is made
EntryPathErrorPrefixOnly(name, destDir) ==
    IF ~HasPrefix(Join(destDir, Clean(name)), destDir) THEN "invalid file path"
    ELSE "nil"

\* the path checks of one entry: "nil" or the error the code returns
EntryPathError(name, destDir) ==
    With(Clean(name), LAMBDA cleanName :
        IF Contains(cleanName, DotDot) THEN "unsafe relative path"
        ELSE IF ~HasPrefix(Join(destDir, cleanName), destDir)
        THEN "invalid file path"
        ELSE IF IsAbs(name) THEN "absolute path not allowed"
        ELSE "nil")

RECURSIVE ExtractEntries(_, _, _, _, _)

\* case tar.TypeDir
ExtractDir(f, tarData, destDir, i, ops, filePath) ==
    With(MkdirAll(f, filePath), LAMBDA mk :
    With(Append(ops, FsOp("MkdirAll", filePath, i)), LAMBDA ops1 :
        IF mk.err
        THEN ExtractResult("failed to create directory", f, ops1)
        ELSE ExtractEntries(mk.fs, tarData, destDir, i + 1, ops1)))

\* case tar.TypeReg
ExtractReg(f, tarData, destDir, i, ops, filePath, header) ==
    With(MkdirAll(f, Dir(filePath)), LAMBDA mk :
    With(Append(ops, FsOp("MkdirAll", Dir(filePath), i)), LAMBDA ops1 :
        IF mk.err
        THEN ExtractResult("failed to create parent directories", f, ops1)
        ELSE IF header.short
        THEN ExtractResult("failed to read file content", mk.fs, ops1)
        ELSE With(WriteFile(mk.fs, filePath, header.data), LAMBDA wr :
             With(Append(ops1, FsOp("WriteFile", filePath, i)), LAMBDA ops2 :
                 IF wr.err
                 THEN ExtractResult("failed to write file", mk.fs, ops2)
                 ELSE ExtractEntries(wr.fs, tarData, destDir, i + 1, ops2)))))

\* the loop over tarReader.Next(), from entry i on
ExtractEntries(f, tarData, destDir, i, ops) ==
    IF i > Len(tarData.entries)
    THEN IF tarData.tail = "eof" THEN ExtractResult("nil", f, ops)
         ELSE ExtractResult("error reading tar", f, ops)
    ELSE
    With(tarData.entries[i], LAMBDA header :
    With(EntryPathError(header.name, destDir), LAMBDA pathErr :
        IF pathErr # "nil" THEN ExtractResult(pathErr, f, ops)
        ELSE IF header.typeflag = "dir"
        THEN ExtractDir(f, tarData, destDir, i, ops,
                        Join(destDir, Clean(header.name)))
        ELSE IF header.typeflag = "reg"
        THEN ExtractReg(f, tarData, destDir, i, ops,
                        Join(destDir, Clean(header.name)), header)
        ELSE ExtractResult("unsupported file type", f, ops)))

\* ExtractTarToDir(fs, tarData, destDir): the error ("nil" for none), the
\* filesystem afterwards and the MkdirAll/WriteFile calls issued, in order
ExtractTarToDir(f, tarData, destDir) ==
    IF tarData.gz # "ok"
    THEN ExtractResult("failed to create gzip reader", f, <<>>)
    ELSE ExtractEntries(f, tarData, destDir, 1, <<>>)

(***************************************************************************)
(* filepath.Match                                                          *)
(***************************************************************************)
Star == "*"
Backslash == "\\"

RECURSIVE StripStars(_)
StripStars(p) ==
    IF Len(p) > 0 /\ p[1] = Star THEN StripStars(Tail(p)) ELSE p

\* index at which the chunk scan of scanChunk stops
RECURSIVE ScanEnd(_, _, _)
ScanEnd(p, i, inrange) ==
    IF i > Len(p) THEN i
    ELSE IF p[i] = Backslash
    THEN IF i + 1 <= Len(p) THEN ScanEnd(p, i + 2, inrange)
         ELSE ScanEnd(p, i + 1, inrange)
    ELSE IF p[i] = "[" THEN ScanEnd(p, i + 1, TRUE)
    ELSE IF p[i] = "]" THEN ScanEnd(p, i + 1, FALSE)
    ELSE IF p[i] = Star /\ ~inrange THEN i
    ELSE ScanEnd(p, i + 1, inrange)

\* scanChunk: leading stars, the chunk up to the next star, the rest
scanChunk(pattern) ==
    With(StripStars(pattern), LAMBDA p :
    With(ScanEnd(p, 1, FALSE), LAMBDA i :
        [star |-> Len(pattern) > 0 /\ pattern[1] = Star,
         chunk |-> SubSeq(p, 1, i - 1),
         rest |-> SubSeq(p, i, Len(p))]))

\* getEsc: one possibly escaped character of a character class
getEsc(chunk) ==
    IF Len(chunk) = 0 \/ chunk[1] = "-" \/ chunk[1] = "]"
    THEN [err |-> TRUE, r |-> "", rest |-> chunk]
    ELSE LET c == IF chunk[1] = Backslash THEN Tail(chunk) ELSE chunk
         IN  IF Len(c) = 0 THEN [err |-> TRUE, r |-> "", rest |-> c]
             ELSE [err |-> Len(c) = 1, r |-> c[1], rest |-> Tail(c)]

\* the range loop of a character class; hasR says whether a character r of
\* the name is being compared
RECURSIVE ClassRanges(_, _, _, _, _)
ClassRanges(chunk, hasR, r, match, nrange) ==
    IF Len(chunk) > 0 /\ chunk[1] = "]" /\ nrange > 0
    THEN [err |-> FALSE, chunk |-> Tail(chunk), match |-> match]
    ELSE
    With(getEsc(chunk), LAMBDA lo :
        IF lo.err THEN [err |-> TRUE, chunk |-> chunk, match |-> FALSE]
        ELSE
        With(IF lo.rest[1] = "-" THEN getEsc(Tail(lo.rest)) ELSE lo, LAMBDA hi :
            IF hi.err
            THEN [err |-> TRUE, chunk |-> chunk, match |-> FALSE]
            ELSE ClassRanges(hi.rest, hasR, r,
                     match \/ (hasR /\ Ord(lo.r) <= Ord(r)
                                    /\ Ord(r) <= Ord(hi.r)),
                     nrange + 1)))

\* matchChunk: after the match has failed the chunk is still scanned for
\* syntax errors
RECURSIVE MatchChunkFrom(_, _, _)
MatchChunkFrom(chunk, s, wasFailed) ==
    IF Len(chunk) = 0
    THEN IF wasFailed THEN [ok |-> FALSE, err |-> FALSE, rest |-> <<>>]
         ELSE [ok |-> TRUE, err |-> FALSE, rest |-> s]
    ELSE
    LET failed == wasFailed \/ Len(s) = 0
        s1 == IF failed THEN s ELSE Tail(s)
    IN  IF chunk[1] = "["
        THEN LET c1 == Tail(chunk)
                 negated == Len(c1) > 0 /\ c1[1] = "^"
                 c2 == IF negated THEN Tail(c1) ELSE c1
             IN  With(ClassRanges(c2, ~failed, IF failed THEN "" ELSE s[1],
                                  FALSE, 0), LAMBDA cls :
                     IF cls.err THEN [ok |-> FALSE, err |-> TRUE, rest |-> <<>>]
                     ELSE MatchChunkFrom(cls.chunk, s1,
                                         failed \/ (cls.match = negated)))
        ELSE IF chunk[1] = "?"
        THEN MatchChunkFrom(Tail(chunk), s1, failed \/ s[1] = Slash)
        ELSE IF chunk[1] = Backslash
        THEN IF Len(chunk) = 1
             THEN [ok |-> FALSE, err |-> TRUE, rest |-> <<>>]
             ELSE MatchChunkFrom(Tail(Tail(chunk)), s1,
                                 failed \/ chunk[2] # s[1])
        ELSE MatchChunkFrom(Tail(chunk), s1, failed \/ chunk[1] # s[1])

matchChunk(chunk, s) == MatchChunkFrom(chunk, s, FALSE)

\* the syntax check of the remaining pattern made before returning false
RECURSIVE RestMalformed(_)
RestMalformed(pattern) ==
    IF Len(pattern) = 0 THEN FALSE
    ELSE With(scanChunk(pattern), LAMBDA sc :
             matchChunk(sc.chunk, <<>>).err \/ RestMalformed(sc.rest))

RECURSIVE Match(_, _)
RECURSIVE MatchSkipping(_, _, _, _)

\* the loop that lets a star swallow name[0..i]; a star never passes a "/"
MatchSkipping(chunk, rest, name, i) ==
    IF ~(i < Len(name) /\ name[i + 1] # Slash)
    THEN [match |-> FALSE, err |-> RestMalformed(rest)]
    ELSE With(matchChunk(chunk, SubSeq(name, i + 2, Len(name))), LAMBDA m :
             IF m.ok
             THEN IF Len(rest) = 0 /\ Len(m.rest) > 0
                  THEN MatchSkipping(chunk, rest, name, i + 1)
                  ELSE Match(rest, m.rest)
             ELSE IF m.err THEN [match |-> FALSE, err |-> TRUE]
             ELSE MatchSkipping(chunk, rest, name, i + 1))

\* filepath.Match(pattern, name): matched, and whether ErrBadPattern
Match(pattern, name) ==
    IF Len(pattern) = 0 THEN [match |-> Len(name) = 0, err |-> FALSE]
    ELSE
    With(scanChunk(pattern), LAMBDA sc :
        IF sc.star /\ Len(sc.chunk) = 0
        THEN [match |-> ~Contains(name, <<Slash>>), err |-> FALSE]
        ELSE
        With(matchChunk(sc.chunk, name), LAMBDA m :
            IF m.ok /\ (Len(m.rest) = 0 \/ Len(sc.rest) > 0)
            THEN Match(sc.rest, m.rest)
            ELSE IF m.err THEN [match |-> FALSE, err |-> TRUE]
            ELSE IF sc.star THEN MatchSkipping(sc.chunk, sc.rest, name, 0)
            ELSE [match |-> FALSE, err |-> RestMalformed(sc.rest)]))

(***************************************************************************)
(* shouldExcludeFile                                                       *)
(***************************************************************************)
commonDirNames ==
    { <<"n", "o", "d", "e", "_", "m", "o", "d", "u", "l", "e", "s">>, <<"_", "_", "p", "y", "c", "a", "c", "h", "e", "_", "_">>, <<".", "g", "i", "t">>, <<".", "s", "v", "n">>, <<".", "h", "g">>,
      <<"b", "u", "i", "l", "d">>, <<"d", "i", "s", "t">>, <<"t", "a", "r", "g", "e", "t">>, <<"b", "i", "n">>, <<"o", "b", "j">>, <<"v", "e", "n", "d", "o", "r">>,
      <<".", "p", "y", "t", "e", "s", "t", "_", "c", "a", "c", "h", "e">> }

isCommonDirectoryName(name) == name \in commonDirNames

\* slices.Contains
SeqContains(seq, x) == \E i \in 1..Len(seq) : seq[i] = x

\* variant: a pattern that filepath.Match rejects counts as a match
MatchesOrFails(pattern, name) ==
    With(Match(pattern, name), LAMBDA m : m.err \/ m.match)

\* match, err := filepath.Match(pattern, name); err == nil && match
Matches(pattern, name) ==
    With(Match(pattern, name), LAMBDA m : ~m.err /\ m.match)

\* variant: a directory rule excludes every path that contains the
\* directory name as a substring
PatternVerdictSubstring(relPath, pattern) ==
    IF relPath = pattern /\ ~HasSuffix(pattern, <<Slash>>)
       /\ isCommonDirectoryName(pattern)
    THEN "next"
    ELSE IF HasSuffix(pattern, <<Slash>>)
    THEN IF Contains(relPath, TrimSuffix(pattern, <<Slash>>))
         THEN "exclude" ELSE "next"
    ELSE IF Matches(pattern, Base(relPath)) \/ Matches(pattern, relPath)
    THEN "exclude" ELSE "next"

\* variant: a directory rule excludes only the directory at the root of
\* the walk and what lies below it
PatternVerdictPrefixOnly(relPath, pattern) ==
    IF relPath = pattern /\ ~HasSuffix(pattern, <<Slash>>)
       /\ isCommonDirectoryName(pattern)
    THEN "next"
    ELSE IF HasSuffix(pattern, <<Slash>>)
    THEN IF \/ relPath = TrimSuffix(pattern, <<Slash>>)
            \/ HasPrefix(relPath, pattern)
         THEN "exclude" ELSE "next"
    ELSE IF Matches(pattern, Base(relPath)) \/ Matches(pattern, relPath)
    THEN "exclude" ELSE "next"

\* variant: a glob is matched against the base name only
PatternVerdictBaseOnly(relPath, pattern) ==
    IF relPath = pattern /\ ~HasSuffix(pattern, <<Slash>>)
       /\ isCommonDirectoryName(pattern)
    THEN "next"
    ELSE IF HasSuffix(pattern, <<Slash>>)
    THEN IF \/ relPath = TrimSuffix(pattern, <<Slash>>)
            \/ HasPrefix(relPath, pattern)
            \/ SeqContains(Split(relPath), TrimSuffix(pattern, <<Slash>>))
         THEN "exclude" ELSE "next"
    ELSE IF Matches(pattern, Base(relPath)) THEN "exclude" ELSE "next"

\* the verdict of one pattern of the loop: "exclude" (return true) or
\* "next" (go on with the following pattern)
PatternVerdict(relPath, pattern) ==
    IF relPath = pattern /\ ~HasSuffix(pattern, <<Slash>>)
       /\ isCommonDirectoryName(pattern)
    THEN "next"
    ELSE IF HasSuffix(pattern, <<Slash>>)
    THEN LET dirPattern == TrimSuffix(pattern, <<Slash>>)
         IN  IF \/ relPath = dirPattern
                \/ HasPrefix(relPath, dirPattern \o <<Slash>>)
                \/ SeqContains(Split(relPath), dirPattern)
             THEN "exclude" ELSE "next"
    ELSE IF Matches(pattern, Base(relPath)) \/ Matches(pattern, relPath)
    THEN "exclude" ELSE "next"

\* variant: only the first pattern of the list is consulted
shouldExcludeFileFirstOnly(relPath, excludePatterns) ==
    Len(excludePatterns) > 0
        /\ PatternVerdict(relPath, Head(excludePatterns)) = "exclude"

RECURSIVE shouldExcludeFile(_, _)
shouldExcludeFile(relPath, excludePatterns) ==
    IF Len(excludePatterns) = 0 THEN FALSE
    ELSE IF PatternVerdict(relPath, Head(excludePatterns)) = "exclude" THEN TRUE
    ELSE shouldExcludeFile(relPath, Tail(excludePatterns))

(***************************************************************************)
(* CreateTarFromDirWithExcludes                                            *)
(***************************************************************************)
WalkResult(e, es) == [err |-> e, entries |-> es]

RECURSIVE WalkList(_, _, _, _)
RECURSIVE WalkOne(_, _, _, _)

\* variant: an excluded directory is left out and its children are still
\* walked (return nil in place of filepath.SkipDir)
WalkOneDescending(f, srcDir, file, excludePatterns) ==
    LET rel == Rel(srcDir, file)
        relPath == rel.path
        fi == f[file]
    IN  IF rel.err THEN WalkResult(TRUE, <<>>)
        ELSE IF fi.kind = "dir"
        THEN With(WalkList(f, srcDir, SortStrings(Children(f, file)),
                           excludePatterns), LAMBDA below :
                 WalkResult(below.err,
                            (IF shouldExcludeFile(relPath, excludePatterns)
                             THEN <<>> ELSE <<TarEntry(relPath, "dir", <<>>)>>)
                            \o below.entries))
        ELSE IF shouldExcludeFile(relPath, excludePatterns)
        THEN WalkResult(FALSE, <<>>)
        ELSE IF fi.kind = "reg"
        THEN WalkResult(FALSE, <<TarEntry(relPath, "reg", fi.data)>>)
        ELSE IF Len(fi.data) > 0 THEN WalkResult(TRUE, <<>>)
        ELSE WalkResult(FALSE, <<TarEntry(relPath, "symlink", <<>>)>>)

\* the walk function applied to one path below srcDir and, for a directory
\* that is kept, to its sorted children
WalkOne(f, srcDir, file, excludePatterns) ==
    LET rel == Rel(srcDir, file)
        relPath == rel.path
        fi == f[file]
    IN  IF rel.err THEN WalkResult(TRUE, <<>>)
        ELSE IF shouldExcludeFile(relPath, excludePatterns)
        THEN WalkResult(FALSE, <<>>)      \* SkipDir for a directory
        ELSE IF fi.kind = "dir"
        THEN With(WalkList(f, srcDir, SortStrings(Children(f, file)),
                           excludePatterns), LAMBDA below :
                 WalkResult(below.err,
                            <<TarEntry(relPath, "dir", <<>>)>> \o below.entries))
        ELSE IF fi.kind = "reg"
        THEN WalkResult(FALSE, <<TarEntry(relPath, "reg", fi.data)>>)
        \* a symbolic link gets a header of size 0; io.Copy of the bytes
        \* read through the link then fails with ErrWriteTooLong
        ELSE IF Len(fi.data) > 0 THEN WalkResult(TRUE, <<>>)
        ELSE WalkResult(FALSE, <<TarEntry(relPath, "symlink", <<>>)>>)

WalkList(f, srcDir, files, excludePatterns) ==
    IF Len(files) = 0 THEN WalkResult(FALSE, <<>>)
    ELSE With(WalkOne(f, srcDir, Head(files), excludePatterns), LAMBDA first :
             IF first.err THEN first
             ELSE With(WalkList(f, srcDir, Tail(files), excludePatterns),
                       LAMBDA rest :
                           WalkResult(rest.err, first.entries \o rest.entries)))

\* CreateTarFromDirWithExcludes(srcDir, excludePatterns): whether it fails
\* and the entries written, in archive order.  filepath.Walk hands the walk
\* function the error of Lstat for a missing root; the root itself has the
\* relative path "." and is skipped, and only a directory is descended.
CreateTarFromDirWithExcludes(f, srcDir, excludePatterns) ==
    IF ~FsExists(f, srcDir) THEN WalkResult(TRUE, <<>>)
    ELSE IF ~FsIsDir(f, srcDir) THEN WalkResult(FALSE, <<>>)
    ELSE WalkList(f, srcDir, SortStrings(Children(f, srcDir)), excludePatterns)

(***************************************************************************)
(* per-language metadata                                                   *)
(***************************************************************************)
LanguagePython == "python"
LanguageNodeJS == "nodejs"
LanguageGo == "go"
LanguageCPP == "cpp"

SupportedLanguages == {LanguagePython, LanguageNodeJS, LanguageGo, LanguageCPP}

FilenamePython == <<"m", "a", "i", "n", ".", "p", "y">>
FilenameNodeJS == <<"i", "n", "d", "e", "x", ".", "j", "s">>
FilenameGo == <<"m", "a", "i", "n", ".", "g", "o">>
FilenameCPP == <<"m", "a", "i", "n", ".", "c", "p", "p">>

\* variant: the switch falls back to the python file name
GetCodeFileNameDefaulting(language) ==
    IF language = LanguageNodeJS THEN [err |-> FALSE, name |-> FilenameNodeJS]
    ELSE IF language = LanguageGo THEN [err |-> FALSE, name |-> FilenameGo]
    ELSE IF language = LanguageCPP THEN [err |-> FALSE, name |-> FilenameCPP]
    ELSE [err |-> FALSE, name |-> FilenamePython]

\* GetCodeFileName: the switch over the language
GetCodeFileName(language) ==
    IF language = LanguagePython THEN [err |-> FALSE, name |-> FilenamePython]
    ELSE IF language = LanguageNodeJS THEN [err |-> FALSE, name |-> FilenameNodeJS]
    ELSE IF language = LanguageGo THEN [err |-> FALSE, name |-> FilenameGo]
    ELSE IF language = LanguageCPP THEN [err |-> FALSE, name |-> FilenameCPP]
    ELSE [err |-> TRUE, name |-> <<>>]

\* GetRunCommand: the shell command run inside the container
GetRunCommand(language) ==
    IF language = LanguagePython THEN [err |-> FALSE, cmd |-> "python main.py"]
    ELSE IF language = LanguageNodeJS THEN [err |-> FALSE, cmd |-> "node index.js"]
    ELSE IF language = LanguageGo
    THEN [err |-> FALSE, cmd |-> "go build -o app main.go && ./app"]
    ELSE IF language = LanguageCPP
    THEN [err |-> FALSE, cmd |-> "g++ -std=c++17 -O2 -o app main.cpp && ./app"]
    ELSE [err |-> TRUE, cmd |-> ""]

\* GetEnvironmentVariables(langEnvs, language) fails for a language outside
\* the four, unless langEnvs is nil: then it returns an empty map for every
\* language
GetEnvironmentVariablesErr(langEnvsIsNil, language) ==
    ~langEnvsIsNil /\ language \notin SupportedLanguages

\* NewExecutor hands every executor a LanguageEnvironments it has built
LangEnvsIsNil == FALSE

\* the static configuration of the executor: prefix and postfix code
PrefixCode(language) == IF language = LanguagePython THEN <<"prefix">> ELSE <<>>
PostfixCode(language) == IF language = LanguagePython THEN <<"postfix">> ELSE <<>>

\* ApplyHooks / applyHooksFromConfig
ApplyHooks(language, code) ==
    IF language \in SupportedLanguages
    THEN PrefixCode(language) \o code \o PostfixCode(language)
    ELSE code

\* the static configuration of the executor: exclude patterns per language
ConfiguredExcludePatterns(language) ==
    IF language = LanguagePython THEN << <<"_", "_", "p", "y", "c", "a", "c", "h", "e", "_", "_", "/">>, <<"*", ".", "p", "y", "c">> >>
    ELSE IF language = LanguageNodeJS THEN << <<"n", "o", "d", "e", "_", "m", "o", "d", "u", "l", "e", "s", "/">> >>
    ELSE IF language = LanguageGo THEN << <<"a", "p", "p">> >>
    ELSE <<>>

\* the switch (Docker) or map lookup (Podman, Local) that picks the patterns
ExcludePatternsFor(language) ==
    IF language \in SupportedLanguages THEN ConfiguredExcludePatterns(language)
    ELSE <<>>

(***************************************************************************)
(* Execute: data                                                           *)
(***************************************************************************)
Calls == 1..NumCalls

MaxArtifactSizeMul == 1024 * 1024

\* the limit of the size check, in bytes
ArtifactLimit == MaxArtifactSizeMB * 1024 * 1024

\* variant: the length is compared in whole megabytes
SizeExceedsLimitInMB(n) == (n \div MaxArtifactSizeMul) > MaxArtifactSizeMB

\* the size check: len(artifactsTar) > MaxArtifactSizeMB*1024*1024
SizeExceedsLimit(n) == n > ArtifactLimit

TmpDir == <<"/", "t", "m", "p">>
TempPattern == <<"c", "o", "d", "e", "b", "o", "x", "-", "e", "x", "e", "c", "-">>
WorkdirName == <<"w", "o", "r", "k", "d", "i", "r">>

\* the random suffixes os.MkdirTemp can draw
SuffixChars == <<"1", "2", "3", "4", "5">>
TempSuffixes == {SuffixChars[i] : i \in 1..NumTempNames}

\* the name os.MkdirTemp("", "codebox-exec-*") forms from a random suffix
TempPath(suffix) == TmpDir \o <<Slash>> \o TempPattern \o <<suffix>>

\* variant: the name drawn is used whether or not it exists
TempNameAssumedFree(f, suffix) == TRUE

\* os.MkdirTemp creates the directory with Mkdir and draws another suffix
\* when the name exists: only a name that does not exist is returned
TempNameFree(f, suffix) == ~FsExists(f, TempPath(suffix))

NoFreeTempName(f) == \A s \in TempSuffixes : ~TempNameFree(f, s)

\* fmt.Sprintf("codebox-exec-%d", time.Now().UnixNano())
ContainerName(t) == [prefix |-> "codebox-exec-", nano |-> t]
NoContainer == [prefix |-> "", nano |-> -1]

NoArtifacts == [len |-> 0, entries |-> <<>>]

ExecuteResult(out, errText, code, tar) ==
    [Stdout |-> out, Stderr |-> errText, ExitCode |-> code, ArtifactsTar |-> tar]

\* ExecuteResult{}
ZeroResult == ExecuteResult(<<>>, <<>>, 0, NoArtifacts)

TimedOutNotice == <<"\nExecution timed out">>

IdleCall ==
    [pc |-> "idle", variant |-> "none", req |-> [Language |-> "", Code |-> <<>>,
                                                 WorkdirTar |-> NoBytes,
                                                 TimeoutSec |-> 0],
     config |-> [TimeoutSec |-> 0], timerSec |-> 0, elapsed |-> 0,
     tempDir |-> <<>>, workdir |-> <<>>, containerName |-> NoContainer,
     ctx |-> "none", proc |-> "none", container |-> "none",
     stdoutBuf |-> <<>>, stderrBuf |-> <<>>, runErr |-> "nil", exitCode |-> 0,
     result |-> ZeroResult, err |-> "nil",
     \* history kept for the properties
     spawned |-> <<>>, stops |-> <<>>, touched |-> {}, extractErr |-> "nil",
     phaseAtDeadline |-> "none", ownExit |-> "none",
     steps |-> <<>>, failed |-> "none", containerAtPack |-> "none",
     \* a process started by the submitted code holds the pipes of the
     \* command's stdout and stderr
     pipesHeld |-> FALSE,
     packed |-> FALSE, packedLen |-> 0, sizeChecked |-> FALSE,
     rmFailed |-> FALSE, goneAtReturn |-> FALSE]

\* what cmd.Run returned, as text (%v)
RunErrText(runErr, code) ==
    IF runErr = "exit" THEN IF code = -1 THEN "signal: killed" ELSE "exit status"
    ELSE IF runErr = "ctx" THEN "context deadline exceeded"
    ELSE IF runErr = "canceled" THEN "context canceled"
    ELSE IF runErr = "other" THEN "executable file not found"
    ELSE "nil"

\* RealCommandRunner.RunCommand: what it returns for the outcome of cmd.Run
RunCommand(runErr, code, outBuf, errBuf) ==
    IF runErr = "nil"
    THEN [stdout |-> outBuf, stderr |-> errBuf, exitCode |-> 0, err |-> "nil"]
    ELSE IF runErr = "exit"
    THEN [stdout |-> outBuf, stderr |-> errBuf, exitCode |-> code, err |-> "nil"]
    ELSE [stdout |-> <<>>, stderr |-> <<>>, exitCode |-> 0, err |-> runErr]

(***************************************************************************)
(* inputs                                                                  *)
(***************************************************************************)
Variants == {"docker", "podman", "local"}

ArchiveWithFiles ==
    TarGz(<<TarEntry(<<"a">>, "dir", <<>>), TarEntry(<<"a", "/", "b">>, "reg", <<"B">>)>>, 2)
ArchiveWithSource == TarGz(<<TarEntry(FilenamePython, "reg", <<"X">>)>>, 2)
\* an archive holding a regular file under the name of language's source file
ArchiveWithSourceOf(language) ==
    IF GetCodeFileName(language).err THEN ArchiveWithSource
    ELSE TarGz(<<TarEntry(GetCodeFileName(language).name, "reg", <<"X">>)>>, 2)
ArchiveTraversal ==
    TarGz(<<TarEntry(<<"a">>, "reg", <<"A">>), TarEntry(<<".", ".", "/", "x">>, "reg", <<"X">>)>>, 2)
ArchiveSymlink == TarGz(<<TarEntry(<<"l">>, "symlink", <<>>)>>, 2)
ArchiveSourceDir == TarGz(<<TarEntry(FilenamePython, "dir", <<>>)>>, 2)

ExecArchives ==
    {NoBytes, NotGzip, ArchiveWithFiles, ArchiveWithSource, ArchiveTraversal,
     ArchiveSymlink, ArchiveSourceDir, TruncatedTarGz(<<>>, 2)}

\* the request the MCP handler builds: TimeoutSec is the configured value
Request(language, archive, timeoutSec) ==
    [Language |-> language, Code |-> <<"code">>, WorkdirTar |-> archive,
     TimeoutSec |-> timeoutSec]

\* sandbox.Config of the executor
ExecutorConfig(timeoutSec) == [TimeoutSec |-> timeoutSec]

\* every language with no archive and with an archive that holds the source
\* file's name; every archive with python
ExecRequests ==
    UNION {{Request(l, a, 1) : a \in {NoBytes, ArchiveWithSourceOf(l)}} :
              l \in SupportedLanguages \cup {"ruby"}}
    \cup {Request(LanguagePython, a, 1) : a \in ExecArchives}

\* the requests and variants of a run with several concurrent calls
ConcInputs ==
    {[variant |-> "docker", req |-> Request(LanguagePython, NoBytes, 1),
      config |-> ExecutorConfig(1)],
     [variant |-> "podman", req |-> Request(LanguagePython, NoBytes, 1),
      config |-> ExecutorConfig(1)],
     [variant |-> "local", req |-> Request(LanguageGo, NoBytes, 1),
      config |-> ExecutorConfig(1)]}

\* one call whose request and whose executor each carry a timeout of their
\* own
TimedInputs ==
    [variant : Variants,
     req : {Request(l, NoBytes, t) : l \in {LanguagePython, LanguageGo},
                                     t \in 1..MaxTimeoutSec},
     config : {ExecutorConfig(t) : t \in 1..MaxTimeoutSec}]

Inputs(m) ==
    IF m = "exec"
    THEN [variant : Variants, req : ExecRequests, config : {ExecutorConfig(1)}]
    ELSE IF m = "live" THEN TimedInputs
    ELSE ConcInputs

\* environment failures injected into the steps of one call
Faults(m) == IF m = "exec" THEN {"none", "fail"} ELSE {"none"}
PrepareFaults(m) ==
    IF m = "exec" THEN {"none", "mkdirall", "writefile", "spawn"} ELSE {"none"}

\* what a process leaves in the buffers and in the workspace
Outputs(m) ==
    IF m = "exec" THEN {[out |-> <<>>, err |-> <<>>], [out |-> <<"o">>, err |-> <<"e">>]}
    ELSE {[out |-> <<"o">>, err |-> <<"e">>]}
ExitCodes(m) == IF m = "exec" THEN {0, 2} ELSE {0}
Effects(m) == IF m = "exec" THEN {"none", "file", "cache", "link"} ELSE {"none"}

\* the length in bytes of a packaged archive
ArchiveLens(m) ==
    IF m = "exec" THEN {1, ArtifactLimit, ArtifactLimit + 1} ELSE {1}

\* the workspace after the process has run
ApplyEffect(f, workdir, eff) ==
    IF eff \in {"file", "cache", "link"}
    THEN FsPut(f,
               Join(workdir, IF eff = "file" THEN <<"o", "u", "t">>
                             ELSE IF eff = "cache" THEN <<"m", ".", "p", "y", "c">>
                             ELSE <<"l">>),
               IF eff = "file" THEN RegNode(<<"O">>)
               ELSE IF eff = "cache" THEN RegNode(<<"P">>)
               ELSE LinkNode(<<"L">>))
    ELSE f

(***************************************************************************)
(* Execute: steps                                                          *)
(*                                                                         *)
(* One call of Execute is cut at the points where it blocks: MkdirTemp,    *)
(* the preparation up to the start of the first process, the wait for the  *)
(* build process (Local, go and cpp), the wait for the run process, the    *)
(* wait for the stop command (Docker, Podman), and the return.             *)
(***************************************************************************)
IsContainerVariant(v) == v \in {"docker", "podman"}
NeedsBuild(c) == c.variant = "local" /\ c.req.Language \in {LanguageGo, LanguageCPP}

\* the command line Execute starts first
FirstCommand(c) ==
    IF c.variant = "docker" THEN "docker run"
    ELSE IF c.variant = "podman" THEN "podman run"
    ELSE IF NeedsBuild(c) THEN "build"
    ELSE "run"

\* the deferred os.RemoveAll(tempDir); its error is logged (Docker) or
\* dropped (Podman, Local)
DeferredRemoveAll(f, tempDir, rmFault) ==
    IF rmFault = "fail" THEN f ELSE RemoveAll(f, tempDir)

\* a return of Execute after the scratch directory was created: the
\* deferred cancel() and RemoveAll run, then the caller has the values
Return(c, f, result, err, rmFault) ==
    With(DeferredRemoveAll(f, c.tempDir, rmFault), LAMBDA f2 :
        [call |-> [c EXCEPT !.pc = "done", !.result = result, !.err = err,
                            !.ctx = IF c.ctx = "armed" THEN "canceled" ELSE c.ctx,
                            !.touched = c.touched \cup {c.tempDir},
                            !.rmFailed = (rmFault = "fail"),
                            !.goneAtReturn = ~FsExists(f2, c.tempDir)],
         fs |-> f2])

\* the call has started a step of Execute (history)
Did(c, step) == [c EXCEPT !.steps = Append(c.steps, step)]

\* the step started last has failed (history)
Failed(c) == [c EXCEPT !.failed = c.steps[Len(c.steps)]]

\* return ExecuteResult{}, fmt.Errorf(err, ...): the step started last
\* has failed
Fail(c, f, err, rmFault) == Return(Failed(c), f, ZeroResult, err, rmFault)

Step(c, f) == [call |-> c, fs |-> f]

\* Execute, from the entry to MkdirTemp
BeginStep(c, f, in, suffix, fault) ==
    LET c1 == [c EXCEPT !.variant = in.variant, !.req = in.req,
                        !.config = in.config,
                        !.steps = <<"MkdirTemp">>]
    IN  IF fault = "fail" \/ NoFreeTempName(f)
        THEN Step([c1 EXCEPT !.pc = "done", !.result = ZeroResult,
                             !.err = "failed to create temp dir",
                             !.failed = "MkdirTemp"], f)
        ELSE Step([c1 EXCEPT !.pc = "tempdir", !.tempDir = TempPath(suffix),
                             !.touched = {TempPath(suffix)}],
                  FsPut(f, TempPath(suffix), DirNode))

\* the error of GetEnvironmentVariables (Docker) or GetRunCommand (Docker,
\* Podman) behind WriteFile, "nil" for none
StartError(c) ==
    IF c.variant = "docker"
       /\ GetEnvironmentVariablesErr(LangEnvsIsNil, c.req.Language)
    THEN "failed to get environment variables"
    ELSE IF IsContainerVariant(c.variant) /\ GetRunCommand(c.req.Language).err
    THEN "failed to get run command"
    ELSE "nil"

\* Execute, from GetCodeFileName to the start of the first process
WriteCodeStep(c, f, t, fault, rmFault, codeFilePath) ==
    With(IF fault = "writefile" THEN [err |-> TRUE, fs |-> f]
         ELSE WriteFile(f, codeFilePath,
                        ApplyHooks(c.req.Language, c.req.Code)), LAMBDA wr :
    With([c EXCEPT !.touched = c.touched \cup {codeFilePath},
                   !.steps = Append(c.steps, "WriteFile")], LAMBDA c3 :
    With(IF wr.err THEN "failed to write user code"
         ELSE StartError(c), LAMBDA err :
    With([c3 EXCEPT !.containerName =
                        IF IsContainerVariant(c.variant)
                        THEN ContainerName(t) ELSE NoContainer,
                    !.ctx = "armed",
                    !.timerSec = c.config.TimeoutSec,
                    !.steps = Append(c3.steps, IF NeedsBuild(c) THEN "Build"
                                               ELSE "Run")], LAMBDA c4 :
        IF err # "nil"
        THEN Fail(IF wr.err THEN c3
                  ELSE IF err = "failed to get run command"
                  THEN Did(c3, "GetRunCommand")
                  ELSE Did(c3, "GetEnvironmentVariables"),
                  wr.fs, err, rmFault)
        ELSE IF fault = "spawn"
        \* cmd.Run fails to start the process
        THEN Step([c4 EXCEPT !.pc = IF NeedsBuild(c) THEN "built" ELSE "ran",
                             !.runErr = "other"], wr.fs)
        ELSE Step([c4 EXCEPT !.pc = IF NeedsBuild(c) THEN "build" ELSE "run",
                             !.proc = "running",
                             \* docker run, podman run: the runtime starts the
                             \* container
                             !.container = IF IsContainerVariant(c.variant)
                                           THEN "running" ELSE "none",
                             !.spawned = Append(c.spawned, FirstCommand(c))],
                  wr.fs)))))

\* Execute, from MkdirAll(workdir) to the start of the first process
PrepareStep(c, f, t, fault, rmFault) ==
    With(Join(c.tempDir, WorkdirName), LAMBDA workdirPath :
    With(IF fault = "mkdirall" THEN [err |-> TRUE, fs |-> f]
         ELSE MkdirAll(f, workdirPath), LAMBDA mk :
    With([c EXCEPT !.workdir = workdirPath,
                   !.touched = c.touched \cup {workdirPath},
                   !.steps = Append(c.steps, "MkdirAll")], LAMBDA c1 :
        IF mk.err THEN Fail(c1, mk.fs, "failed to create workdir", rmFault)
        ELSE
        With(IF c.req.WorkdirTar.len > 0
             THEN ExtractTarToDir(mk.fs, c.req.WorkdirTar, workdirPath)
             ELSE ExtractResult("nil", mk.fs, <<>>), LAMBDA ex :
        With([c1 EXCEPT !.extractErr = ex.err,
                        !.touched = c1.touched \cup
                                    {ex.ops[i].path : i \in 1..Len(ex.ops)},
                        !.steps = IF c.req.WorkdirTar.len > 0
                                  THEN Append(c1.steps, "ExtractTar")
                                  ELSE c1.steps],
             LAMBDA c2 :
        With(GetCodeFileName(c.req.Language), LAMBDA codeFile :
            IF ex.err # "nil" \/ codeFile.err
            THEN Fail(IF ex.err # "nil" THEN c2 ELSE Did(c2, "GetCodeFileName"),
                      ex.fs,
                      IF ex.err # "nil" THEN "failed to extract workdir_tar"
                      ELSE "invalid language", rmFault)
            ELSE WriteCodeStep(Did(c2, "GetCodeFileName"), ex.fs, t, fault, rmFault,
                               Join(workdirPath, codeFile.name))))))))

\* the process of the pending cmd.Run exits on its own
ProcExitStep(c, f, code, output, eff) ==
    IF c.pc = "build"
    THEN Step([c EXCEPT !.pc = "built", !.proc = "exited",
                        !.runErr = IF code = 0 THEN "nil" ELSE "exit",
                        !.exitCode = code,
                        !.ownExit = "build"],
              IF code = 0
              THEN FsPut(f, Join(c.workdir, <<"a", "p", "p">>), RegNode(<<"ELF">>))
              ELSE f)
    \* docker run, podman run: the command exits when its container has ended
    ELSE Step([c EXCEPT !.pc = "ran", !.proc = "exited",
                        !.container = IF c.container = "running" THEN "exited"
                                      ELSE c.container,
                        !.runErr = IF code = 0 THEN "nil" ELSE "exit",
                        !.exitCode = code,
                        !.stdoutBuf = output.out, !.stderrBuf = output.err,
                        !.ownExit = "run"],
              ApplyEffect(f, c.workdir, eff))

\* the context is done (deadline passed, or cancelled by the caller) and
\* exec kills the process; cmd.Run returns an ExitError ("signal: killed"),
\* or the context's error when the process had just exited with status 0
\* and the kill was delivered.  The process killed is the docker or podman
\* command: its container is not signalled and runs on
ProcKilledStep(c, output, how) ==
    [c EXCEPT !.pc = IF c.pc = "build" THEN "built" ELSE "ran",
              !.proc = "exited",
              !.container = IF how = "exited0" /\ c.container = "running"
                            THEN "exited" ELSE c.container,
              !.runErr = IF how = "killed" THEN "exit"
                         ELSE IF c.ctx = "CallerCanceled" THEN "canceled"
                         ELSE "ctx",
              !.exitCode = IF how = "killed" THEN -1 ELSE 0,
              !.stdoutBuf = IF c.pc = "build" THEN c.stdoutBuf ELSE output.out,
              !.stderrBuf = IF c.pc = "build" THEN c.stderrBuf ELSE output.err]

\* the timer of context.WithTimeout fires
DeadlineStep(c) == [c EXCEPT !.ctx = "DeadlineExceeded", !.phaseAtDeadline = c.pc]

\* variant: the program is started whatever buildCmd.Run() returned
BuildDoneStepRunningAnyway(c, f, fault, rmFault) ==
    Step([(IF c.runErr # "nil" THEN Failed(c) ELSE c)
              EXCEPT !.pc = "run", !.proc = "running", !.runErr = "nil",
                     !.spawned = Append(c.spawned, "run"),
                     !.steps = Append(c.steps, "Run")], f)

\* Local, go and cpp: buildCmd.Run() has returned
BuildDoneStep(c, f, fault, rmFault) ==
    IF c.runErr # "nil"
    THEN Return(Failed(c), f,
                ExecuteResult(<<>>,
                              <<IF c.req.Language = LanguageGo
                                THEN "Build error: " ELSE "Compile error: ",
                                RunErrText(c.runErr, c.exitCode)>>,
                              1, NoArtifacts),
                "nil", rmFault)
    ELSE IF c.ctx \in {"DeadlineExceeded", "CallerCanceled"}
    \* cmd.Run does not start a process under a context that is done
    THEN Step([c EXCEPT !.pc = "ran", !.proc = "none",
                        !.runErr = IF c.ctx = "CallerCanceled" THEN "canceled"
                                   ELSE "ctx",
                        !.steps = Append(c.steps, "Run")], f)
    ELSE IF fault = "fail"
    THEN Step([c EXCEPT !.pc = "ran", !.proc = "none", !.runErr = "other",
                        !.steps = Append(c.steps, "Run")], f)
    ELSE Step([c EXCEPT !.pc = "run", !.proc = "running",
                        !.spawned = Append(c.spawned, "run"),
                        !.steps = Append(c.steps, "Run")], f)

\* the result returned when ctxWithTimeout.Err() is DeadlineExceeded
TimeoutResult(c) ==
    With(IF c.variant = "docker"
         THEN RunCommand(c.runErr, c.exitCode, c.stdoutBuf, c.stderrBuf)
         ELSE [stdout |-> c.stdoutBuf, stderr |-> c.stderrBuf], LAMBDA rc :
        ExecuteResult(rc.stdout, rc.stderr \o TimedOutNotice, 1, NoArtifacts))

\* Execute, from CreateTarFromDirWithExcludes to the return
PackStep(c, f, n, rmFault, exitCode) ==
    With(CreateTarFromDirWithExcludes(f, c.workdir,
                                      ExcludePatternsFor(c.req.Language)),
         LAMBDA created :
    With([c EXCEPT !.packed = TRUE, !.touched = c.touched \cup {c.workdir},
                   !.packedLen = IF created.err THEN c.packedLen ELSE n,
                   !.sizeChecked = IF created.err THEN c.sizeChecked ELSE TRUE,
                   !.containerAtPack = c.container,
                   !.steps = IF created.err THEN Append(c.steps, "CreateTar")
                             ELSE c.steps \o <<"CreateTar", "SizeCheck">>],
         LAMBDA cs :
    With(IF created.err THEN "failed to create artifacts tar"
         ELSE IF SizeExceedsLimit(n) THEN "artifacts size exceeds limit"
         ELSE "nil", LAMBDA err :
        Return(IF err # "nil" THEN Failed(cs) ELSE cs, f,
               IF err # "nil" THEN ZeroResult
               ELSE ExecuteResult(c.stdoutBuf, c.stderrBuf, exitCode,
                                  [len |-> n, entries |-> created.entries]),
               err, rmFault))))

\* variant: after a deadline the timeout result is returned at once, in
\* the container variants too
AfterRunStepWithoutStop(c, f, n, rmFault) ==
    With(RunCommand(c.runErr, c.exitCode, c.stdoutBuf, c.stderrBuf), LAMBDA rc :
        IF c.ctx = "DeadlineExceeded" \/ rc.err # "nil"
        THEN Return(IF c.ctx = "DeadlineExceeded" THEN c ELSE Failed(c), f,
                    IF c.ctx = "DeadlineExceeded" THEN TimeoutResult(c)
                    ELSE ZeroResult,
                    IF c.ctx = "DeadlineExceeded" THEN "nil"
                    ELSE IF c.variant = "local" THEN "failed to execute command"
                    ELSE "failed to execute container", rmFault)
        ELSE PackStep(c, f, n, rmFault, rc.exitCode))

\* Execute, from the return of cmd.Run (RunCommand) on
AfterRunStep(c, f, n, rmFault) ==
    With(RunCommand(c.runErr, c.exitCode, c.stdoutBuf, c.stderrBuf), LAMBDA rc :
        IF c.ctx = "DeadlineExceeded" /\ IsContainerVariant(c.variant)
        THEN Step([c EXCEPT !.pc = "stop",
                            !.stops = Append(c.stops, c.containerName),
                            !.steps = Append(c.steps, "Stop")], f)
        ELSE IF c.ctx = "DeadlineExceeded" \/ rc.err # "nil"
        THEN Return(IF c.ctx = "DeadlineExceeded" THEN c ELSE Failed(c), f,
                    IF c.ctx = "DeadlineExceeded" THEN TimeoutResult(c)
                    ELSE ZeroResult,
                    IF c.ctx = "DeadlineExceeded" THEN "nil"
                    ELSE IF c.variant = "local" THEN "failed to execute command"
                    ELSE "failed to execute container", rmFault)
        ELSE PackStep(c, f, n, rmFault, rc.exitCode))

\* Docker, Podman: the stop command has returned; its error is logged
\* (Docker) or dropped (Podman)
StopReturnsStep(c, f, rmFault) ==
    Return([c EXCEPT !.container = IF c.container = "running"
                                   THEN "stop requested" ELSE c.container],
           f, TimeoutResult(c), "nil", rmFault)

(***************************************************************************)
(* Execute: actions                                                        *)
(***************************************************************************)
Executing == mode \in {"exec", "conc", "live", "cancel"}

SetCall(p, r) ==
    /\ calls' = [calls EXCEPT ![p] = r.call]
    /\ fs' = r.fs

Begin(p) ==
    /\ Executing
    /\ mode \in {"exec", "live", "cancel"} => p = 1
    /\ calls[p].pc = "idle"
    /\ \E in \in Inputs(mode), suffix \in TempSuffixes, fault \in Faults(mode) :
          /\ TempNameFree(fs, suffix) \/ fault = "fail" \/ NoFreeTempName(fs)
          /\ SetCall(p, BeginStep(calls[p], fs, in, suffix, fault))
    /\ UNCHANGED <<now, mode, tarIn, tarOut, cfg, app>>

Prepare(p) ==
    /\ Executing
    /\ calls[p].pc = "tempdir"
    /\ \E fault \in PrepareFaults(mode), rmFault \in Faults(mode) :
          SetCall(p, PrepareStep(calls[p], fs, now, fault, rmFault))
    /\ UNCHANGED <<now, mode, tarIn, tarOut, cfg, app>>

\* cmd.Run returns after the process has exited by itself; with buffers
\* as Stdout and Stderr it returns when every holder of the pipes has
\* closed them
ProcExit(p) ==
    /\ Executing
    /\ calls[p].pc \in {"build", "run"}
    /\ calls[p].proc = "running"
    /\ ~calls[p].pipesHeld
    /\ \E code \in ExitCodes(mode), output \in Outputs(mode), eff \in Effects(mode) :
          SetCall(p, ProcExitStep(calls[p], fs, code, output, eff))
    /\ UNCHANGED <<now, mode, tarIn, tarOut, cfg, app>>

\* a second passes before the deadline of the call's context
Second(p) ==
    /\ Executing
    /\ calls[p].ctx = "armed"
    /\ calls[p].pc \in {"build", "built", "run", "ran"}
    /\ calls[p].elapsed < calls[p].timerSec
    /\ calls' = [calls EXCEPT ![p].elapsed = @ + 1]
    /\ UNCHANGED <<fs, now, mode, tarIn, tarOut, cfg, app>>

DeadlineFire(p) ==
    /\ Executing
    /\ calls[p].ctx = "armed"
    /\ calls[p].elapsed = calls[p].timerSec
    /\ calls[p].pc \in {"build", "built", "run", "ran"}
    /\ calls' = [calls EXCEPT ![p] = DeadlineStep(calls[p])]
    /\ UNCHANGED <<fs, now, mode, tarIn, tarOut, cfg, app>>

\* cmd.Run returns after the context has killed the process: no WaitDelay
\* is set, so it returns when every holder of the pipes has closed them
ProcKilled(p) ==
    /\ Executing
    /\ calls[p].pc \in {"build", "run"}
    /\ calls[p].proc = "running"
    /\ calls[p].ctx \in {"DeadlineExceeded", "CallerCanceled"}
    /\ ~calls[p].pipesHeld
    /\ \E output \in Outputs(mode), how \in {"killed", "exited0"} :
          calls' = [calls EXCEPT ![p] = ProcKilledStep(calls[p], output, how)]
    /\ UNCHANGED <<fs, now, mode, tarIn, tarOut, cfg, app>>

BuildDone(p) ==
    /\ Executing
    /\ calls[p].pc = "built"
    /\ \E fault \in Faults(mode), rmFault \in Faults(mode) :
          SetCall(p, BuildDoneStep(calls[p], fs, fault, rmFault))
    /\ UNCHANGED <<now, mode, tarIn, tarOut, cfg, app>>

AfterRun(p) ==
    /\ Executing
    /\ calls[p].pc = "ran"
    /\ \E n \in ArchiveLens(mode), rmFault \in Faults(mode) :
          SetCall(p, AfterRunStep(calls[p], fs, n, rmFault))
    /\ UNCHANGED <<now, mode, tarIn, tarOut, cfg, app>>

StopReturns(p) ==
    /\ Executing
    /\ calls[p].pc = "stop"
    /\ \E rmFault \in Faults(mode) :
          SetCall(p, StopReturnsStep(calls[p], fs, rmFault))
    /\ UNCHANGED <<now, mode, tarIn, tarOut, cfg, app>>

\* the submitted code, run by the Local executor on the host, starts a
\* process that inherits stdout and stderr and outlives a kill of the
\* command: only the command's own process is killed
ChildInheritsPipes(p) ==
    /\ Executing
    /\ ~IsContainerVariant(calls[p].variant)
    /\ calls[p].pc = "run"
    /\ calls[p].proc = "running"
    /\ calls[p].ctx = "armed"
    /\ ~calls[p].pipesHeld
    /\ calls' = [calls EXCEPT ![p].pipesHeld = TRUE]
    /\ UNCHANGED <<fs, now, mode, tarIn, tarOut, cfg, app>>

\* the process holding the pipes closes them or ends
ChildClosesPipes(p) ==
    /\ Executing
    /\ calls[p].pipesHeld
    /\ calls' = [calls EXCEPT ![p].pipesHeld = FALSE]
    /\ UNCHANGED <<fs, now, mode, tarIn, tarOut, cfg, app>>

\* the caller cancels the context it passed to Execute while the backend
\* is invoked: ctxWithTimeout is done with the error context.Canceled
CallerCancel(p) ==
    /\ Executing
    /\ calls[p].ctx = "armed"
    /\ calls[p].pc \in {"build", "built", "run", "ran"}
    /\ calls' = [calls EXCEPT ![p].ctx = "CallerCanceled"]
    /\ UNCHANGED <<fs, now, mode, tarIn, tarOut, cfg, app>>

\* a container whose docker or podman command was killed comes to its end
\* by itself
ContainerExit(p) ==
    /\ Executing
    /\ calls[p].container = "running"
    /\ calls[p].proc = "exited"
    /\ calls' = [calls EXCEPT ![p].container = "exited"]
    /\ UNCHANGED <<fs, now, mode, tarIn, tarOut, cfg, app>>

\* the clock advances
Tick ==
    /\ Executing
    /\ now < MaxClock
    /\ now' = now + 1
    /\ UNCHANGED <<fs, calls, mode, tarIn, tarOut, cfg, app>>

(***************************************************************************)
(* the codec on its own                                                    *)
(***************************************************************************)
DestDir == <<"/", "d">>
SrcDir == <<"/", "s">>

\* a filesystem with an empty directory at dir
FreshFs(dir) == [p \in {Root, dir} |-> DirNode]

EntryPool ==
    { TarEntry(<<"a">>, "dir", <<>>),
      TarEntry(<<"a">>, "reg", <<"A">>),
      TarEntry(<<"a", "/", "b">>, "reg", <<"B">>),
      TarEntry(<<".", ".", "/", "x">>, "reg", <<"X">>),
      TarEntry(<<"/", "x">>, "reg", <<"X">>),
      TarEntry(<<"a", "/", ".", ".", "/", "b">>, "reg", <<"B">>),
      TarEntry(<<"a", "/", ".", ".">>, "reg", <<"D">>),
      TarEntry(<<"a", ".", ".", "b">>, "reg", <<"C">>),
      TarEntry(<<"l">>, "symlink", <<>>),
      ShortEntry(<<"c">>, <<"C">>) }

RECURSIVE SeqsUpTo(_, _)
SeqsUpTo(S, n) ==
    IF n = 0 THEN {<<>>}
    ELSE LET shorter == SeqsUpTo(S, n - 1)
         IN  shorter \cup {Append(s, x) : s \in shorter, x \in S}

CodecArchives ==
    {TarGz(es, 2) : es \in SeqsUpTo(EntryPool, MaxEntries)}
    \cup {NoBytes, NotGzip, TruncatedTarGz(<<>>, 2)}

\* the nodes a source tree may hold, by relative path
TreePool ==
    { [path |-> <<"a">>, node |-> DirNode],
      [path |-> <<"a", "/", "b">>, node |-> RegNode(<<"B">>)],
      [path |-> <<"c">>, node |-> RegNode(<<"C">>)],
      [path |-> <<"e">>, node |-> DirNode],
      [path |-> <<"z">>, node |-> RegNode(<<>>)],
      [path |-> <<"a", ".", ".", "b">>, node |-> RegNode(<<"D">>)],
      [path |-> <<"l">>, node |-> LinkNode(<<>>)] }

\* a set of nodes is a tree when every parent directory is in it
IsTree(T) ==
    \A n \in T : Dir(n.path) # <<Dot>> =>
        \E m \in T : m.path = Dir(n.path) /\ m.node.kind = "dir"

CodecTrees == {T \in SUBSET TreePool : IsTree(T)}

\* the filesystem that holds tree T at dir
TreeFs(T, dir) ==
    [p \in {Root, dir} \cup {Join(dir, n.path) : n \in T} |->
        IF p \in {Root, dir} THEN DirNode
        ELSE (CHOOSE n \in T : Join(dir, n.path) = p).node]

\* the tree found at dir in filesystem f
FsTree(f, dir) ==
    {[path |-> Rel(dir, p).path, node |-> f[p]] :
        p \in {q \in DOMAIN f : q # dir /\ IsWithin(q, dir)}}

NoInput == [kind |-> "none"]
NoOutput == [op |-> "none"]

CodecInputs ==
    {[kind |-> "archive", archive |-> a] : a \in CodecArchives}
    \cup {[kind |-> "tree", tree |-> T] : T \in CodecTrees}

\* ExtractTarToDir(fs, tarData, "/d") on an empty destination
Extract ==
    /\ mode = "tar"
    /\ tarIn.kind = "archive"
    /\ tarOut.op = "none"
    /\ tarOut' = [op |-> "extract",
                  res |-> ExtractTarToDir(FreshFs(DestDir), tarIn.archive, DestDir)]
    /\ UNCHANGED <<fs, now, calls, mode, tarIn, cfg, app>>

\* CreateTarFromDirWithExcludes("/s", nil), then ExtractTarToDir of the
\* bytes into an empty destination
RoundTripResult(T) ==
    With(CreateTarFromDirWithExcludes(TreeFs(T, SrcDir), SrcDir, <<>>),
         LAMBDA created :
        IF created.err
        THEN [createErr |-> TRUE, extractErr |-> "nil", tree |-> {}]
        ELSE With(ExtractTarToDir(FreshFs(DestDir),
                                  TarGz(created.entries, 2), DestDir),
                  LAMBDA ex :
                      [createErr |-> FALSE, extractErr |-> ex.err,
                       tree |-> FsTree(ex.fs, DestDir)]))

RoundTrip ==
    /\ mode = "tar"
    /\ tarIn.kind = "tree"
    /\ tarOut.op = "none"
    /\ tarOut' = [op |-> "roundtrip", res |-> RoundTripResult(tarIn.tree)]
    /\ UNCHANGED <<fs, now, calls, mode, tarIn, cfg, app>>

\* relative paths handed to shouldExcludeFile
MatchPaths ==
    { <<"b", "u", "i", "l", "d">>, <<"s", "r", "c", "/", "b", "u", "i", "l", "d">>, <<"b", "u", "i", "l", "d", "/", "o", "u", "t", ".", "o">>, <<"s", "r", "c", "/", "b", "u", "i", "l", "d", "/", "o", "u", "t", ".", "o">>,
      <<"b", "u", "i", "l", "d", "i", "n", "g", "/", "t", "o", "o", "l", ".", "p", "y">>, <<"m", "a", "i", "n", ".", "p", "y">>, <<"s", "r", "c", "/", "m", "a", "i", "n", ".", "p", "y">>, <<"t", "e", "s", "t", ".", "p", "y">>,
      <<"s", "r", "c", "/", "c", "a", "c", "h", "e", "/", "m", "a", "i", "n", ".", "p", "y", "c">>, <<"n", "o", "d", "e", "_", "m", "o", "d", "u", "l", "e", "s">>, <<"[", "a", "/", "x">> }

\* exclude patterns: directory rules, globs, conventional directory names,
\* malformed globs
MatchPatterns ==
    { <<"b", "u", "i", "l", "d", "/">>, <<"b", "u", "i", "l", "d">>, <<"m", "a", "i", "n", ".", "p", "y">>, <<"*", ".", "p", "y", "c">>, <<"[", "i", "n", "v", "a", "l", "i", "d", "-", "p", "a", "t", "t", "e", "r", "n">>,
      <<"n", "o", "d", "e", "_", "m", "o", "d", "u", "l", "e", "s">>, <<"n", "o", "d", "e", "_", "m", "o", "d", "u", "l", "e", "s", "/">>, <<"s", "r", "c", "/", "b", "u", "i", "l", "d", "/">>, <<"s", "r", "c", "/", "*">>,
      <<"/">>, <<"[", "a", "-", "c", "]", "u", "i", "l", "d">>, <<"[", "a", "/">>, <<"s", "r", "c", "/", "b", "u", "i", "l", "d">>, <<"*", "\\">> }

\* exclude patterns for the trees of TreePool
PackPatterns == { <<"a">>, <<"b">>, <<"a", "/">>, <<"*", "b">>, <<"l">> }

MatchInputs ==
    {[kind |-> "match", relPath |-> p, excludePatterns |-> L] :
        p \in MatchPaths, L \in SeqsUpTo(MatchPatterns, MaxPatterns)}

PackInputs ==
    {[kind |-> "pack", tree |-> T, excludePatterns |-> L] :
        T \in CodecTrees, L \in SeqsUpTo(PackPatterns, MaxPatterns)}

\* shouldExcludeFile(relPath, excludePatterns)
Exclude ==
    /\ mode = "tar"
    /\ tarIn.kind = "match"
    /\ tarOut.op = "none"
    /\ tarOut' = [op |-> "exclude",
                  res |-> shouldExcludeFile(tarIn.relPath, tarIn.excludePatterns)]
    /\ UNCHANGED <<fs, now, calls, mode, tarIn, cfg, app>>

\* CreateTarFromDirWithExcludes("/s", excludePatterns) on a tree
Pack ==
    /\ mode = "tar"
    /\ tarIn.kind = "pack"
    /\ tarOut.op = "none"
    /\ tarOut' = [op |-> "pack",
                  res |-> CreateTarFromDirWithExcludes(TreeFs(tarIn.tree, SrcDir),
                                                       SrcDir,
                                                       tarIn.excludePatterns)]
    /\ UNCHANGED <<fs, now, calls, mode, tarIn, cfg, app>>

(***************************************************************************)
(* startup: config.New, then NewExecutor                                   *)
(***************************************************************************)
\* the fields of config.Config that validate and NewExecutor read, as
\* viper.Unmarshal has filled them, and what readConfigData finds in the
\* working directory: no file ("none"), bytes that do not parse as a YAML
\* mapping ("malformed"), a mapping without a languages mapping
\* ("no languages") or one with it ("languages")
Config(transport, timeoutSec, memoryMB, maxArtifactSizeMB, backend, enableLocal, rawConfig) ==
    [Transport |-> transport, TimeoutSec |-> timeoutSec, MemoryMB |-> memoryMB,
     MaxArtifactSizeMB |-> maxArtifactSizeMB, Backend |-> backend,
     EnableLocalBackend |-> enableLocal, RawConfig |-> rawConfig]

NoConfig == Config("", 0, 0, 0, "", FALSE, "none")

RawConfigs == {"none", "malformed", "no languages", "languages"}

Transports == {"stdio", "http", "grpc"}
Backends == {"docker", "podman", "kubernetes", "local", "lxc"}

\* the configurations a config file can give
Configs ==
    {Config(tr, t, m, a, b, e, raw) :
        tr \in Transports, t \in {0, 1}, m \in {0, 1}, a \in {0, 1},
        b \in Backends, e \in BOOLEAN, raw \in RawConfigs}

\* the map supportedBackends of validate
supportedBackends(c) ==
    [b \in {"docker", "podman", "kubernetes", "local"} |->
        IF b = "local" THEN c.EnableLocalBackend ELSE TRUE]

\* a Go map lookup: the zero value for a key that is not in the map
Lookup(m, k) == k \in DOMAIN m /\ m[k]

\* variant: local is a supported backend whatever the flag says
validateAllowingLocal(c) ==
    IF c.Transport \notin {"stdio", "http"} THEN "invalid server.transport"
    ELSE IF c.TimeoutSec <= 0 THEN "sandbox.timeout_sec must be positive"
    ELSE IF c.MemoryMB <= 0 THEN "sandbox.memory_mb must be positive"
    ELSE IF c.MaxArtifactSizeMB <= 0
    THEN "sandbox.max_artifact_size_mb must be positive"
    ELSE IF c.Backend \notin {"docker", "podman", "kubernetes", "local"}
    THEN "unsupported sandbox.backend"
    ELSE "nil"

\* Config.validate: the error, "nil" for none
validate(c) ==
    IF c.Transport # "stdio" /\ c.Transport # "http"
    THEN "invalid server.transport"
    ELSE IF c.TimeoutSec <= 0 THEN "sandbox.timeout_sec must be positive"
    ELSE IF c.MemoryMB <= 0 THEN "sandbox.memory_mb must be positive"
    ELSE IF c.MaxArtifactSizeMB <= 0
    THEN "sandbox.max_artifact_size_mb must be positive"
    ELSE IF ~Lookup(supportedBackends(c), c.Backend)
    THEN "unsupported sandbox.backend"
    ELSE "nil"

\* NewExecutor: the kind of executor returned and the error
NewExecutor(c) ==
    IF c.Backend \in {"docker", "podman", "local"}
    THEN [executor |-> c.Backend, err |-> "nil"]
    ELSE [executor |-> "none", err |-> "unsupported backend"]

\* loadEnvironmentVariables: the error, "nil" for none, and where the
\* Environment maps of the four languages come from afterwards: the values
\* viper.Unmarshal gave ("viper") or the languages mapping of the file
\* readConfigData has read ("raw")
loadEnvironmentVariables(c) ==
    IF c.RawConfig = "none" THEN [err |-> "nil", environment |-> "viper"]
    ELSE IF c.RawConfig = "malformed"
    THEN [err |-> "error loading environment variables", environment |-> "viper"]
    \* loadLanguageEnvironments
    ELSE IF c.RawConfig = "no languages"
    THEN [err |-> "nil", environment |-> "viper"]
    ELSE [err |-> "nil", environment |-> "raw"]

NotStarted == [pc |-> "none", err |-> "nil", executor |-> "none",
               environment |-> "none"]
Loaded == [pc |-> "loaded", err |-> "nil", executor |-> "none",
           environment |-> "none"]

\* config.New, from the unmarshalled configuration on: the environment
\* maps are loaded, then the configuration is validated; a configuration
\* that fails either step is not returned
ConfigNew ==
    /\ mode = "config"
    /\ app.pc = "loaded"
    /\ app' = IF loadEnvironmentVariables(cfg).err # "nil"
              THEN [app EXCEPT !.pc = "failed",
                               !.err = loadEnvironmentVariables(cfg).err]
              ELSE IF validate(cfg) # "nil"
              THEN [app EXCEPT !.pc = "failed", !.err = validate(cfg)]
              ELSE [app EXCEPT !.pc = "configured",
                               !.environment =
                                   loadEnvironmentVariables(cfg).environment]
    /\ UNCHANGED <<fs, now, calls, mode, tarIn, tarOut, cfg>>

\* main: fx calls sandbox.NewExecutor with the configuration config.New
\* has returned
ProvideExecutor ==
    /\ mode = "config"
    /\ app.pc = "configured"
    /\ app' = IF NewExecutor(cfg).err # "nil"
              THEN [app EXCEPT !.pc = "failed", !.err = NewExecutor(cfg).err]
              ELSE [app EXCEPT !.pc = "ready",
                               !.executor = NewExecutor(cfg).executor]
    /\ UNCHANGED <<fs, now, calls, mode, tarIn, tarOut, cfg>>

(***************************************************************************)
(* the command line of the container run                                   *)
(*                                                                         *)
(* Arguments are strings.  The environment map reaches the loop            *)
(* `for key, value := range envVars` in an order the Go runtime picks: it  *)
(* is given as the sequence of the pairs in that order.                    *)
(***************************************************************************)
RECURSIVE StringOf(_)
\* the string made of the characters of a path
StringOf(s) == IF s = <<>> THEN "" ELSE s[1] \o StringOf(Tail(s))

\* fmt.Sprintf("codebox-exec-%d", ...) as a string
NameString(name) == name.prefix \o ToString(name.nano)

\* getLanguageImage
getLanguageImage(language) ==
    IF language = LanguagePython THEN "python:3.11-slim"
    ELSE IF language = LanguageNodeJS THEN "node:20-alpine"
    ELSE IF language = LanguageGo THEN "golang:1.23-alpine"
    ELSE IF language = LanguageCPP THEN "gcc:13"
    ELSE "alpine:latest"

\* fmt.Sprintf("%s=%s", key, value)
EnvAssignment(pair) == pair.key \o "=" \o pair.value

RECURSIVE EnvArgs(_)
\* for key, value := range envVars { cmdArgs = append(cmdArgs, "-e", ...) }
EnvArgs(envVars) ==
    IF envVars = <<>> THEN <<>>
    ELSE <<"-e", EnvAssignment(envVars[1])>> \o EnvArgs(Tail(envVars))

\* cmdArgs up to the network option: the same in Docker and Podman but
\* for the program's name
RunOptions(program, containerName, workdirPath, memoryMB, networkEnabled) ==
    <<program, "run",
      "--name", containerName,
      "--rm",
      "-v", StringOf(workdirPath) \o ":/workdir",
      "--workdir", "/workdir",
      "--memory", ToString(memoryMB) \o "m",
      "--network", "none",
      "--ulimit", "fsize=100000000",
      "--ulimit", "cpu=10",
      "--security-opt", "no-new-privileges:true",
      "--user", "nobody",
      "--cap-drop", "ALL">>
    \o IF networkEnabled THEN <<"--network", "bridge">> ELSE <<>>

\* DockerExecutor.Execute: the options, the -e pairs, the image, the command
DockerRunArgs(containerName, workdirPath, memoryMB, networkEnabled, envVars, language) ==
    RunOptions("docker", containerName, workdirPath, memoryMB, networkEnabled)
    \o EnvArgs(envVars)
    \o <<getLanguageImage(language)>>
    \o <<"sh", "-c", GetRunCommand(language).cmd>>

\* PodmanExecutor.Execute: the options, the image, the -e pairs, the command
PodmanRunArgs(containerName, workdirPath, memoryMB, networkEnabled, envVars, language) ==
    RunOptions("podman", containerName, workdirPath, memoryMB, networkEnabled)
    \o <<getLanguageImage(language)>>
    \o EnvArgs(envVars)
    \o <<"sh", "-c", GetRunCommand(language).cmd>>

\* the pairs a language's environment map may hold
EnvPool ==
    {[key |-> "PYTHONUNBUFFERED", value |-> "1"],
     [key |-> "HOME", value |-> "/tmp"],
     [key |-> "SHELL", value |-> "sh"]}

\* the maps of up to MaxEnvVars pairs, in every order of iteration
EnvMaps ==
    {m \in SeqsUpTo(EnvPool, MaxEnvVars) :
        \A i, j \in 1..Len(m) : i # j => m[i].key # m[j].key}

ArgsInputs ==
    [kind : {"args"}, variant : {"docker", "podman"},
     language : SupportedLanguages, envVars : EnvMaps,
     networkEnabled : BOOLEAN, memoryMB : {256}, nano : 0..MaxClock]

\* the command line Execute builds for one request
BuildArgs ==
    /\ mode = "args"
    /\ tarIn.kind = "args"
    /\ tarOut.op = "none"
    /\ tarOut' =
          [op |-> "args",
           res |-> IF tarIn.variant = "docker"
                   THEN DockerRunArgs(NameString(ContainerName(tarIn.nano)),
                                      Join(TempPath("1"), WorkdirName),
                                      tarIn.memoryMB, tarIn.networkEnabled,
                                      tarIn.envVars, tarIn.language)
                   ELSE PodmanRunArgs(NameString(ContainerName(tarIn.nano)),
                                      Join(TempPath("1"), WorkdirName),
                                      tarIn.memoryMB, tarIn.networkEnabled,
                                      tarIn.envVars, tarIn.language)]
    /\ UNCHANGED <<fs, now, calls, mode, tarIn, cfg, app>>

(***************************************************************************)
(* specifications                                                          *)
(***************************************************************************)
InitFs == [p \in {Root, TmpDir} |-> DirNode]

InitCommon ==
    /\ fs = InitFs
    /\ now = 0
    /\ calls = [p \in Calls |-> IdleCall]
    /\ cfg = NoConfig
    /\ app = NotStarted

\* one call of Execute, all requests, variants and environment failures
Init ==
    /\ InitCommon
    /\ mode = "exec"
    /\ tarIn = NoInput
    /\ tarOut = NoOutput

\* concurrent calls of Execute
InitConc ==
    /\ InitCommon
    /\ mode = "conc"
    /\ tarIn = NoInput
    /\ tarOut = NoOutput

\* one call of Execute in an environment without failures, for every
\* pair of request timeout and executor timeout
InitLive ==
    /\ InitCommon
    /\ mode = "live"
    /\ tarIn = NoInput
    /\ tarOut = NoOutput

\* the codec applied to each archive and each tree, the matcher applied to
\* each path and pattern list
InitTar ==
    /\ InitCommon
    /\ mode = "tar"
    /\ tarIn \in CodecInputs \cup MatchInputs \cup PackInputs
    /\ tarOut = NoOutput

Next ==
    \/ \E p \in Calls :
          \/ Begin(p)
          \/ Prepare(p)
          \/ ProcExit(p)
          \/ Second(p)
          \/ DeadlineFire(p)
          \/ ProcKilled(p)
          \/ BuildDone(p)
          \/ AfterRun(p)
          \/ StopReturns(p)
          \/ ChildInheritsPipes(p)
          \/ ChildClosesPipes(p)
    \/ Tick

NextTar == Extract \/ RoundTrip \/ Exclude \/ Pack

\* the command line of the container run for every variant, language and
\* environment map
InitArgs ==
    /\ InitCommon
    /\ mode = "args"
    /\ tarIn \in ArgsInputs
    /\ tarOut = NoOutput

NextArgs == BuildArgs

ArgsSpec == InitArgs /\ [][NextArgs]_vars

\* one call of Execute whose caller may cancel its context
InitCancel ==
    /\ InitCommon
    /\ mode = "cancel"
    /\ tarIn = NoInput
    /\ tarOut = NoOutput

NextCancel ==
    \/ Next
    \/ \E p \in Calls : CallerCancel(p) \/ ContainerExit(p)

CancelSpec == InitCancel /\ [][NextCancel]_vars

\* the startup of the server for each configuration
InitConfig ==
    /\ fs = InitFs
    /\ now = 0
    /\ calls = [p \in Calls |-> IdleCall]
    /\ mode = "config"
    /\ tarIn = NoInput
    /\ tarOut = NoOutput
    /\ cfg \in Configs
    /\ app = Loaded

NextConfig == ConfigNew \/ ProvideExecutor

ConfigSpec == InitConfig /\ [][NextConfig]_vars

Spec == Init /\ [][Next]_vars
ConcSpec == InitConc /\ [][Next]_vars

\* concurrent calls of Execute that all run to a normal return: the
\* allocation and the use of the scratch directories
NextWorkspaces ==
    \E p \in Calls :
        \/ Begin(p)
        \/ Prepare(p)
        \/ ProcExit(p)
        \/ BuildDone(p)
        \/ AfterRun(p)

WorkspaceSpec == InitConc /\ [][NextWorkspaces]_vars
TarSpec == InitTar /\ [][NextTar]_vars

\* the steps the Go runtime and the kernel take sooner or later: the
\* goroutine of Execute runs on when it is not blocked (Prepare, BuildDone,
\* AfterRun), and a process killed through its context ends, so that
\* cmd.Run returns once nothing else holds its pipes (ProcKilled); nothing
\* makes a process that holds them let go.  The stop command is an external process
\* started with the caller's context, which carries no deadline: nothing in
\* the code makes stopCmd.Run() return.
\* Prepare(p) is enabled exactly when calls[p].pc = "tempdir" and
\* AfterRun(p) exactly when calls[p].pc = "ran", and both change pc: their
\* weak fairness WF_vars(A), []<>~ENABLED <<A>>_vars \/ []<><<A>>_vars, is
\* written with these enabling conditions
ExecuteFairness ==
    \A p \in Calls :
        /\ []<>(calls[p].pc # "tempdir") \/ []<><<Prepare(p)>>_vars
        /\ WF_vars(ProcKilled(p))
        /\ WF_vars(BuildDone(p))
        /\ []<>(calls[p].pc # "ran") \/ []<><<AfterRun(p)>>_vars

\* one call of Execute, requests and executors with timeouts of their own
TimedSpec == InitLive /\ [][Next]_vars
LiveSpec == TimedSpec /\ ExecuteFairness

(***************************************************************************)
(* Properties                                                              *)
(***************************************************************************)

\* C1: for every Execute call whose scratch directory was created, the
\* directory has been removed by the time Execute returns, on every exit
\* path.
C1_ScratchRemovedOnReturn ==
    \A p \in Calls :
        calls[p].pc = "done" /\ calls[p].tempDir # <<>>
            => calls[p].goneAtReturn

\* C2: when the deadline expires while a backend process runs, Execute
\* returns a nil error and a result with ExitCode 1, the captured stdout,
\* the captured stderr followed by the timeout notice and no artifacts;
\* the workspace is not packaged and the size check is not run.
C2_TimeoutResult ==
    \A p \in Calls :
        calls[p].pc = "done" /\ calls[p].phaseAtDeadline \in {"build", "run"}
            => /\ calls[p].err = "nil"
               /\ calls[p].result =
                      ExecuteResult(calls[p].stdoutBuf,
                                    calls[p].stderrBuf \o <<"\nExecution timed out">>,
                                    1, NoArtifacts)
               /\ ~calls[p].packed
               /\ ~calls[p].sizeChecked

\* C3 (as the specification states it): an archive with an entry whose
\* name has a ".." segment, whose name is absolute or whose type is
\* neither directory nor regular file makes ExtractTarToDir return an
\* error, and no MkdirAll or WriteFile is issued for a path that is not
\* destDir or below it.
C3_RejectsEveryDotDotSegment ==
    tarOut.op = "extract" =>
        LET es == tarIn.archive.entries
            bad(e) == \/ \E i \in 1..Len(Split(e.name)) : Split(e.name)[i] = DotDot
                      \/ IsAbs(e.name)
                      \/ e.typeflag \notin {"dir", "reg"}
        IN  (\E i \in 1..Len(es) : bad(es[i]))
                => /\ tarOut.res.err # "nil"
                   /\ \A j \in 1..Len(tarOut.res.ops) :
                          IsWithin(tarOut.res.ops[j].path, DestDir)

\* C3 (amended): an archive with an entry whose cleaned name still
\* contains "..", whose name is absolute or whose type is neither
\* directory nor regular file makes ExtractTarToDir return an error; no
\* WriteFile is ever issued for a path outside destDir, and the only
\* MkdirAll outside destDir is the one of destDir's parent, for a regular
\* entry whose name cleans to ".".
C3_PathSafety ==
    tarOut.op = "extract" =>
        LET es == tarIn.archive.entries
            ops == tarOut.res.ops
            bad(e) == \/ Contains(Clean(e.name), DotDot)
                      \/ IsAbs(e.name)
                      \/ e.typeflag \notin {"dir", "reg"}
        IN  /\ (\E i \in 1..Len(es) : bad(es[i])) => tarOut.res.err # "nil"
            /\ \A j \in 1..Len(ops) :
                  \/ IsWithin(ops[j].path, DestDir)
                  \/ /\ ops[j].op = "MkdirAll"
                     /\ ops[j].path = Dir(DestDir)
                     /\ es[ops[j].entry].typeflag = "reg"
                     /\ Clean(es[ops[j].entry].name) = <<Dot>>

\* an archive whose second entry escapes with "..": the first entry was
\* applied inside destDir and the extraction returned the error
C3_Witness ==
    /\ tarOut.op = "extract"
    /\ tarOut.res.err = "unsafe relative path"
    /\ Len(tarOut.res.ops) > 0
    /\ \A j \in 1..Len(tarOut.res.ops) : IsWithin(tarOut.res.ops[j].path, DestDir)

\* C4: a backend process that exits on its own with a code c other than 0
\* before the deadline makes Execute return a nil error and a result with
\* ExitCode c, the captured output and the packaged workspace. (Stated
\* leaving the two packaging errors aside: a failed packaging and an
\* archive over the size limit.)
C4_NonZeroExitIsResult ==
    \A p \in Calls :
        LET c == calls[p]
        IN  /\ c.pc = "done"
            /\ c.ownExit # "none"
            /\ c.runErr = "exit" /\ c.exitCode # 0
            /\ c.phaseAtDeadline \notin {"build", "run"}
            /\ c.err \notin {"failed to create artifacts tar",
                             "artifacts size exceeds limit"}
            => /\ c.err = "nil"
               /\ c.result.ExitCode = c.exitCode
               /\ c.result.Stdout = c.stdoutBuf
               /\ c.result.Stderr = c.stderrBuf
               /\ c.packed
               /\ c.result.ArtifactsTar.len = c.packedLen

\* C5: when the workspace was packaged, an archive longer than
\* MaxArtifactSizeMB * 1024 * 1024 bytes makes Execute return the
\* size-limit error and the zero ExecuteResult, an archive within the
\* limit is returned with a nil error, and no returned result carries an
\* archive longer than the limit.
C5_SizeLimit ==
    \A p \in Calls :
        LET c == calls[p]
            limit == MaxArtifactSizeMB * 1024 * 1024
        IN  c.pc = "done" =>
               /\ c.result.ArtifactsTar.len <= limit
               /\ c.packed /\ c.err # "failed to create artifacts tar"
                     => IF c.packedLen > limit
                        THEN /\ c.err = "artifacts size exceeds limit"
                             /\ c.result = ZeroResult
                        ELSE /\ c.err = "nil"
                             /\ c.result.ArtifactsTar.len = c.packedLen
                             /\ c.result.ExitCode = c.exitCode

\* an archive one byte over the limit was refused
C5_Witness ==
    /\ calls[1].pc = "done"
    /\ calls[1].packed
    /\ calls[1].packedLen = MaxArtifactSizeMB * 1024 * 1024 + 1
    /\ calls[1].err = "artifacts size exceeds limit"

\* C6: for a request whose language is not python, nodejs, go or cpp, or
\* whose archive is not a gzip stream, is a corrupt tar stream, or holds a
\* path-traversal entry or an entry that is neither directory nor regular
\* file, Execute returns an error and starts no backend process.
C6_NoBackendForBadRequest ==
    \A p \in Calls :
        LET c == calls[p]
            a == c.req.WorkdirTar
            badLanguage == c.req.Language \notin {"python", "nodejs", "go", "cpp"}
            badEntry(e) == \/ HasPrefix(e.name, <<Dot, Dot, Slash>>)
                           \/ e.typeflag \notin {"dir", "reg"}
            badArchive == /\ a.len > 0
                          /\ \/ a.gz # "ok"
                             \/ a.tail # "eof"
                             \/ \E i \in 1..Len(a.entries) : badEntry(a.entries[i])
        IN  c.variant # "none" /\ (badLanguage \/ badArchive)
            => /\ c.spawned = <<>>
               /\ c.proc = "none"
               /\ c.pc \in {"tempdir", "done"}
               /\ c.pc = "done" => c.err # "nil" /\ c.result = ZeroResult

\* a request for an unsupported language came back with the error
C6_Witness ==
    /\ calls[1].pc = "done"
    /\ calls[1].req.Language = "ruby"
    /\ calls[1].req.WorkdirTar = NoBytes
    /\ calls[1].err = "invalid language"
    /\ calls[1].spawned = <<>>

\* C7: for every directory tree of directories and regular files,
\* extracting the archive CreateTarFromDirWithExcludes makes of it (no
\* patterns) into an empty directory succeeds and yields the same
\* relative paths with the same contents.
C7_RoundTrip ==
    /\ tarOut.op = "roundtrip"
    /\ \A n \in tarIn.tree : n.node.kind \in {"dir", "reg"}
    => /\ ~tarOut.res.createErr
       /\ tarOut.res.extractErr = "nil"
       /\ tarOut.res.tree = tarIn.tree

\* C8: when ExtractTarToDir rejects the entry at position k (its cleaned
\* name contains "..", its name is absolute, or its type is neither
\* directory nor regular file), every MkdirAll and WriteFile issued
\* belongs to an entry before k, the calls were issued in archive order,
\* and when the error returned is the rejection they are exactly the
\* calls of the entries before k.
C8_FailFast ==
    tarOut.op = "extract" =>
        LET es == tarIn.archive.entries
            ops == tarOut.res.ops
            bad(e) == \/ Contains(Clean(e.name), DotDot)
                      \/ IsAbs(e.name)
                      \/ e.typeflag \notin {"dir", "reg"}
            Bad == {i \in 1..Len(es) : bad(es[i])}
            k == CHOOSE i \in Bad : \A j \in Bad : i <= j
            target(i) == Join(DestDir, Clean(es[i].name))
            opsOf(i) == IF es[i].typeflag = "dir"
                        THEN <<FsOp("MkdirAll", target(i), i)>>
                        ELSE <<FsOp("MkdirAll", Dir(target(i)), i),
                               FsOp("WriteFile", target(i), i)>>
            expected[i \in 0..Len(es)] ==
                IF i = 0 THEN <<>> ELSE expected[i - 1] \o opsOf(i)
        IN  Bad # {} =>
               /\ tarOut.res.err # "nil"
               /\ \A j \in 1..Len(ops) : ops[j].entry < k
               /\ \A j \in 1..(Len(ops) - 1) : ops[j].entry <= ops[j + 1].entry
               /\ tarOut.res.err \in {"unsafe relative path", "invalid file path",
                                      "absolute path not allowed",
                                      "unsupported file type"}
                     => /\ ops = expected[k - 1]
                        /\ \A i \in 1..(k - 1) :
                               es[i].typeflag = "dir" => FsIsDir(tarOut.res.fs, target(i))

\* the second entry was rejected after the first was written
C8_Witness ==
    /\ tarOut.op = "extract"
    /\ Len(tarIn.archive.entries) = 2
    /\ tarOut.res.err = "unsupported file type"
    /\ Len(tarOut.res.ops) = 2
    /\ tarOut.res.ops[2].op = "WriteFile"

\* C9: two Execute calls whose lifetimes overlap use distinct scratch
\* directories, neither below the other, and every path a call reads,
\* writes, packages or deletes lies in its own scratch directory and
\* outside the other call's.
C9_DisjointWorkspaces ==
    \A p \in Calls : \A q \in Calls \ {p} :
        LET c == calls[p]
            d == calls[q]
        IN  /\ c.tempDir # <<>> => \A x \in c.touched : IsWithin(x, c.tempDir)
            /\ /\ c.pc \notin {"idle", "done"} /\ c.tempDir # <<>>
               /\ d.pc \notin {"idle", "done"} /\ d.tempDir # <<>>
               => /\ c.tempDir # d.tempDir
                  /\ ~IsWithin(c.tempDir, d.tempDir)
                  /\ \A x \in c.touched : ~IsWithin(x, d.tempDir)
                  /\ FsIsDir(fs, c.tempDir)

\* two calls are running their backend at the same time
C9_Witness ==
    /\ calls[1].pc = "run"
    /\ calls[2].pc = "run"
    /\ calls[1].tempDir # <<>>
    /\ calls[2].tempDir # <<>>

\* C10: two Docker calls, or two Podman calls, whose lifetimes overlap
\* passed different container names to run --name.
C10_DistinctContainerNames ==
    \A p \in Calls : \A q \in Calls \ {p} :
        /\ IsContainerVariant(calls[p].variant)
        /\ calls[q].variant = calls[p].variant
        /\ calls[p].pc \in {"run", "ran", "stop"}
        /\ calls[q].pc \in {"run", "ran", "stop"}
        => calls[p].containerName # calls[q].containerName

\* C11: once the deadline of a call has expired, the call eventually
\* returns (with the timeout result), whether the stop command succeeds,
\* fails or never completes.
C11_ReturnsAfterDeadline ==
    \A p \in Calls :
        (calls[p].ctx = "DeadlineExceeded") ~> (calls[p].pc = "done")

\* C12: the deadline of a call's backend invocation is the request's
\* TimeoutSec, whatever the executor's TimeoutSec is: the context is created
\* with the request's timeout, no process of the call is let run for longer
\* than the request's timeout, and the deadline expires when exactly that
\* many seconds have passed.
C12_DeadlineIsRequestTimeout ==
    \A p \in Calls :
        LET c == calls[p]
        IN  c.ctx # "none" =>
                /\ c.timerSec = c.req.TimeoutSec
                /\ c.elapsed <= c.req.TimeoutSec
                /\ c.ctx = "DeadlineExceeded" => c.elapsed = c.req.TimeoutSec

\* C13 (as the specification states it): for every configuration with
\* sandbox.backend = "local" and enable_local_backend = false, validation
\* fails with the "unsupported sandbox.backend" error and the startup
\* obtains no LocalExecutor.
C13_LocalRefusedAsUnsupportedBackend ==
    (mode = "config" /\ cfg.Backend = "local" /\ ~cfg.EnableLocalBackend
        /\ app.pc # "loaded") =>
        /\ app.pc = "failed"
        /\ app.err = "unsupported sandbox.backend"
        /\ app.executor # "local"

\* C13 (amended): for every configuration with sandbox.backend = "local"
\* and enable_local_backend = false, config.New fails, NewExecutor is not
\* reached and no executor is obtained; the error is the "unsupported
\* sandbox.backend" error exactly when the environment maps have loaded and
\* the transport and the three limits of the configuration are valid, and
\* the error of the first failing earlier step or check otherwise.
C13_LocalRefusedByValidation ==
    (mode = "config" /\ cfg.Backend = "local" /\ ~cfg.EnableLocalBackend
        /\ app.pc # "loaded") =>
        /\ app.pc = "failed"
        /\ app.executor = "none"
        /\ app.err \notin {"nil", "unsupported backend"}
        /\ app.err = "unsupported sandbox.backend" <=>
               /\ cfg.RawConfig # "malformed"
               /\ cfg.Transport \in {"stdio", "http"}
               /\ cfg.TimeoutSec > 0
               /\ cfg.MemoryMB > 0
               /\ cfg.MaxArtifactSizeMB > 0

\* C13 witness: the startup has failed on a local backend that is not enabled
C13_Witness ==
    /\ mode = "config"
    /\ cfg.Backend = "local" /\ ~cfg.EnableLocalBackend
    /\ app.pc = "failed"
    /\ app.err = "unsupported sandbox.backend"

\* C14: for a directory pattern d/ and a relative path p,
\* shouldExcludeFile(p, [d/]) is true exactly when p equals d, p starts with
\* d/, or some "/"-separated segment of p equals d; a path that has d only
\* as a proper part of a segment (building/tool.py, build/) is not excluded.
C14_DirectoryRule ==
    (tarOut.op = "exclude" /\ Len(tarIn.excludePatterns) = 1
        /\ HasSuffix(tarIn.excludePatterns[1], <<Slash>>)) =>
        LET p == tarIn.relPath
            pattern == tarIn.excludePatterns[1]
            d == SubSeq(pattern, 1, Len(pattern) - 1)
            \* d fills p[i..j] and that stretch is one whole segment of p
            SegmentAt(i, j) ==
                /\ j <= Len(p)
                /\ SubSeq(p, i, j) = d
                /\ i = 1 \/ p[i - 1] = Slash
                /\ j = Len(p) \/ p[j + 1] = Slash
                /\ \A k \in i..j : p[k] # Slash
        IN  /\ tarOut.res <=>
                   \/ p = d
                   \/ HasPrefix(p, pattern)
                   \/ \E i \in 1..(Len(p) + 1) : SegmentAt(i, i + Len(d) - 1)
            /\ (p = <<"b", "u", "i", "l", "d", "i", "n", "g", "/", "t", "o", "o", "l", ".", "p", "y">> /\ d = <<"b", "u", "i", "l", "d">>) => ~tarOut.res

\* C14 witness: build/ has excluded src/build/out.o, where build is a segment
C14_Witness ==
    /\ tarOut.op = "exclude"
    /\ tarIn.relPath = <<"s", "r", "c", "/", "b", "u", "i", "l", "d", "/", "o", "u", "t", ".", "o">>
    /\ tarIn.excludePatterns = << <<"b", "u", "i", "l", "d", "/">> >>
    /\ tarOut.res

\* C15 (as the specification states it): for a pattern g without trailing
\* separator and a relative path p, shouldExcludeFile(p, [g]) is true
\* exactly when g matches the base name of p or g matches the whole of p.
C15_GlobRule ==
    (tarOut.op = "exclude" /\ Len(tarIn.excludePatterns) = 1
        /\ ~HasSuffix(tarIn.excludePatterns[1], <<Slash>>)) =>
        LET p == tarIn.relPath
            g == tarIn.excludePatterns[1]
        IN  tarOut.res <=> (Matches(g, Base(p)) \/ Matches(g, p))

\* C15 (amended): for a pattern g without trailing separator and a relative
\* path p whose base name is not a conventional directory name equal to g,
\* shouldExcludeFile(p, [g]) is true exactly when g matches the base name of
\* p or g matches the whole of p, a "*" never spanning a "/"; when p equals
\* g and g is a conventional directory name, p is not excluded.
C15_GlobRuleBesideDirectoryNames ==
    (tarOut.op = "exclude" /\ Len(tarIn.excludePatterns) = 1
        /\ ~HasSuffix(tarIn.excludePatterns[1], <<Slash>>)) =>
        LET p == tarIn.relPath
            g == tarIn.excludePatterns[1]
        IN  /\ (p = g /\ isCommonDirectoryName(g)) => ~tarOut.res
            /\ ~(Base(p) = g /\ isCommonDirectoryName(g)) =>
                   (tarOut.res <=> (Matches(g, Base(p)) \/ Matches(g, p)))
            /\ (g = <<"m", "a", "i", "n", ".", "p", "y">> /\ p = <<"s", "r", "c", "/", "m", "a", "i", "n", ".", "p", "y">>) => tarOut.res
            /\ (g = <<"*", ".", "p", "y", "c">> /\ p = <<"s", "r", "c", "/", "c", "a", "c", "h", "e", "/", "m", "a", "i", "n", ".", "p", "y", "c">>) => tarOut.res
            /\ (g = <<"m", "a", "i", "n", ".", "p", "y">> /\ p = <<"t", "e", "s", "t", ".", "p", "y">>) => ~tarOut.res
            /\ (g = <<"s", "r", "c", "/", "*">> /\ p = <<"s", "r", "c", "/", "b", "u", "i", "l", "d">>) => tarOut.res
            /\ (g = <<"s", "r", "c", "/", "*">> /\ p = <<"s", "r", "c", "/", "b", "u", "i", "l", "d", "/", "o", "u", "t", ".", "o">>) => ~tarOut.res

\* C15 witness: *.pyc has excluded src/cache/main.pyc
C15_Witness ==
    /\ tarOut.op = "exclude"
    /\ tarIn.relPath = <<"s", "r", "c", "/", "c", "a", "c", "h", "e", "/", "m", "a", "i", "n", ".", "p", "y", "c">>
    /\ tarIn.excludePatterns = << <<"*", ".", "p", "y", "c">> >>
    /\ tarOut.res

\* C16: a bare pattern that is a conventional directory name does not
\* exclude an entry whose base name is that name, at the root (build) or
\* nested (src/build), whereas the pattern with a trailing separator does.
C16_DirectoryNameSparesSameNamedEntry ==
    (tarOut.op = "exclude" /\ Len(tarIn.excludePatterns) = 1) =>
        LET p == tarIn.relPath
            g == tarIn.excludePatterns[1]
        IN  /\ (isCommonDirectoryName(g) /\ Base(p) = g) => ~tarOut.res
            /\ (HasSuffix(g, <<Slash>>)
                  /\ isCommonDirectoryName(SubSeq(g, 1, Len(g) - 1))
                  /\ Base(p) = SubSeq(g, 1, Len(g) - 1)) => tarOut.res

\* C17: a malformed glob pattern never excludes a path and never stops the
\* matching: filepath.Match rejects it for every name, it excludes nothing
\* on its own, and the result for a list that holds it is the result for
\* the list without it.
C17_MalformedGlobIsNoMatch ==
    tarOut.op = "exclude" =>
        LET p == tarIn.relPath
            L == tarIn.excludePatterns
            Without(i) == SubSeq(L, 1, i - 1) \o SubSeq(L, i + 1, Len(L))
            Names == {p, Base(p), <<>>}
            Malformed(g) ==
                ~HasSuffix(g, <<Slash>>) /\ \E n \in Names : Match(g, n).err
        IN  \A i \in 1..Len(L) :
                Malformed(L[i]) =>
                    /\ \A n \in Names : Match(L[i], n).err /\ ~Match(L[i], n).match
                    /\ ~shouldExcludeFile(p, <<L[i]>>)
                    /\ tarOut.res = shouldExcludeFile(p, Without(i))

\* C17 witness: main.py has been excluded by the pattern that follows the
\* malformed one
C17_Witness ==
    /\ tarOut.op = "exclude"
    /\ tarIn.relPath = <<"m", "a", "i", "n", ".", "p", "y">>
    /\ tarIn.excludePatterns = << <<"[", "i", "n", "v", "a", "l", "i", "d", "-", "p", "a", "t", "t", "e", "r", "n">>, <<"m", "a", "i", "n", ".", "p", "y">> >>
    /\ tarOut.res

\* C18: shouldExcludeFile is a logical OR over its patterns: the result for
\* a list is true iff the result is true for some single pattern of the
\* list; every permutation of the list gives the same result; the empty
\* list gives false.
C18_LogicalOr ==
    tarOut.op = "exclude" =>
        LET p == tarIn.relPath
            L == tarIn.excludePatterns
            n == Len(L)
            Perms == {f \in [1..n -> 1..n] : \A i, j \in 1..n : f[i] = f[j] => i = j}
        IN  /\ tarOut.res <=> \E i \in 1..n : shouldExcludeFile(p, <<L[i]>>)
            /\ \A f \in Perms :
                   shouldExcludeFile(p, [i \in 1..n |-> L[f[i]]]) = tarOut.res
            /\ n = 0 => ~tarOut.res

\* C18 witness: the first pattern is passed over (build against build) and
\* the second one has excluded the path
C18_Witness ==
    /\ tarOut.op = "exclude"
    /\ tarIn.relPath = <<"b", "u", "i", "l", "d">>
    /\ tarIn.excludePatterns = << <<"b", "u", "i", "l", "d">>, <<"b", "u", "i", "l", "d", "/">> >>
    /\ tarOut.res

\* C19 (as the specification states it): for a directory pattern d/ and the
\* relative path p of a file, shouldExcludeFile(p, [d/]) is true exactly
\* when p starts with d/.
C19_DirectoryRuleIsPrefixRule ==
    (tarOut.op = "exclude" /\ Len(tarIn.excludePatterns) = 1
        /\ HasSuffix(tarIn.excludePatterns[1], <<Slash>>)) =>
        (tarOut.res <=> HasPrefix(tarIn.relPath, tarIn.excludePatterns[1]))

\* C19 (amended): for a directory pattern d/ and a relative path p,
\* shouldExcludeFile(p, [d/]) is true exactly when p lies in a directory
\* d at any depth or is itself named d: p starts with d/, p is d, or d
\* holds no separator and p contains /d/ or ends in /d.
C19_DirectoryRuleAtAnyDepth ==
    (tarOut.op = "exclude" /\ Len(tarIn.excludePatterns) = 1
        /\ HasSuffix(tarIn.excludePatterns[1], <<Slash>>)) =>
        LET p == tarIn.relPath
            pattern == tarIn.excludePatterns[1]
            d == SubSeq(pattern, 1, Len(pattern) - 1)
        IN  tarOut.res <=>
                \/ HasPrefix(p, pattern)
                \/ p = d
                \/ /\ ~Contains(d, <<Slash>>)
                   /\ \/ Contains(p, <<Slash>> \o pattern)
                      \/ HasSuffix(p, <<Slash>> \o d)

\* C19 witness: build/ has excluded src/build, which does not start with
\* build/
C19_Witness ==
    /\ tarOut.op = "exclude"
    /\ tarIn.relPath = <<"s", "r", "c", "/", "b", "u", "i", "l", "d">>
    /\ tarIn.excludePatterns = << <<"b", "u", "i", "l", "d", "/">> >>
    /\ tarOut.res

\* C20: the archive CreateTarFromDirWithExcludes(srcDir, patterns) returns
\* holds an entry for a relative path p exactly when neither p nor an
\* ancestor directory of p below srcDir is excluded by shouldExcludeFile:
\* an excluded directory takes its whole subtree with it, an excluded file
\* only itself, the root has no entry, each path has at most one entry, and
\* with no patterns every path below srcDir has its entry.
C20_ArchiveContents ==
    (tarOut.op = "pack" /\ ~tarOut.res.err) =>
        LET T == tarIn.tree
            L == tarIn.excludePatterns
            entries == tarOut.res.entries
            names == {entries[i].name : i \in 1..Len(entries)}
            SelfAndAncestors(p) ==
                {p} \cup {SubSeq(p, 1, k - 1) : k \in {i \in 1..Len(p) : p[i] = Slash}}
            Kept(p) == \A q \in SelfAndAncestors(p) : ~shouldExcludeFile(q, L)
        IN  /\ names = {n.path : n \in {m \in T : Kept(m.path)}}
            /\ Cardinality(names) = Len(entries)
            /\ <<Dot>> \notin names /\ <<>> \notin names
            /\ L = <<>> => names = {n.path : n \in T}

\* C20 witness: a file that no pattern excludes is missing from the archive
\* because its directory is excluded, next to an entry that was kept
C20_Witness ==
    /\ tarOut.op = "pack"
    /\ ~tarOut.res.err
    /\ \E n \in tarIn.tree :
          /\ ~shouldExcludeFile(n.path, tarIn.excludePatterns)
          /\ shouldExcludeFile(Dir(n.path), tarIn.excludePatterns)
          /\ \A i \in 1..Len(tarOut.res.entries) :
                 tarOut.res.entries[i].name # n.path
    /\ Len(tarOut.res.entries) > 0

\* C21: ExtractTarToDir called with zero bytes of archive data returns no
\* error and performs no filesystem operation: no MkdirAll or WriteFile is
\* issued and the destination is as it was.
C21_ZeroLengthExtractIsNoOp ==
    tarOut.op = "extract" /\ tarIn.archive.len = 0
        => /\ tarOut.res.err = "nil"
           /\ tarOut.res.ops = <<>>
           /\ tarOut.res.fs = FreshFs(DestDir)

\* the steps of one Execute call in the order of the code, up to the
\* return of cmd.Run
Pipeline(c) ==
    <<"MkdirTemp", "MkdirAll">>
    \o (IF c.req.WorkdirTar.len > 0 THEN <<"ExtractTar">> ELSE <<>>)
    \o <<"GetCodeFileName", "WriteFile">>
    \o (IF NeedsBuild(c) THEN <<"Build">> ELSE <<>>)
    \o <<"Run">>

IsPrefix(s, t) == Len(s) <= Len(t) /\ \A i \in 1..Len(s) : s[i] = t[i]

\* C22: within one Execute call the steps are started in the order create
\* scratch directory, create workdir, extract the input archive (if any),
\* write the source file, start the backend (Local, go and cpp: the build,
\* then the program), then package the workspace and check the archive's
\* size, or, after a deadline, stop the container; once a step has failed
\* it stays the last step started; the history agrees with what the call
\* did (processes started, stop commands, packaging, size check).
C22_StepOrder ==
    \A p \in Calls :
        LET c == calls[p]
            has(step) == \E i \in 1..Len(c.steps) : c.steps[i] = step
        IN  /\ \/ IsPrefix(c.steps, Pipeline(c) \o <<"CreateTar", "SizeCheck">>)
               \/ IsPrefix(c.steps, Pipeline(c) \o <<"Stop">>)
            /\ c.failed # "none" => c.steps[Len(c.steps)] = c.failed
            /\ c.packed <=> has("CreateTar")
            /\ c.sizeChecked <=> has("SizeCheck")
            /\ Len(c.stops) > 0 <=> has("Stop")
            /\ Len(c.spawned) > 0 => has("Run") \/ has("Build")
            /\ c.extractErr # "nil" => c.failed = "ExtractTar"
            /\ has("CreateTar") => c.runErr \in {"nil", "exit"}

\* a call with an input archive that went through every step and returned
\* the packaged workspace
C22_Witness ==
    \E p \in Calls :
        /\ calls[p].pc = "done"
        /\ calls[p].req.WorkdirTar.len > 0
        /\ calls[p].steps = Pipeline(calls[p]) \o <<"CreateTar", "SizeCheck">>
        /\ calls[p].failed = "none"
        /\ calls[p].err = "nil"

\* C23: in the local variant for go and cpp, a deadline that elapses while
\* the build or compile process is still running (the process is ended by
\* the deadline, not by itself) makes Execute return the timeout result:
\* nil error, ExitCode 1, Stderr containing the timeout notice and empty
\* artifacts.
C23_BuildTimeoutIsTimeoutResult ==
    \A p \in Calls :
        LET c == calls[p]
        IN  /\ c.pc = "done"
            /\ c.variant = "local"
            /\ c.req.Language \in {LanguageGo, LanguageCPP}
            /\ c.phaseAtDeadline = "build"
            /\ c.ownExit = "none"
            => /\ c.err = "nil"
               /\ c.result.ExitCode = 1
               /\ Contains(c.result.Stderr, TimedOutNotice)
               /\ c.result.ArtifactsTar = NoArtifacts

\* C24: in the local variant, a go build or g++ compile process that exits
\* on its own with a code other than 0 before the deadline makes Execute
\* return a nil error and a result that carries that exit code, and the
\* workspace is packaged into the result's archive.
C24_BuildFailureIsNormalResult ==
    \A p \in Calls :
        LET c == calls[p]
        IN  /\ c.pc = "done"
            /\ c.variant = "local"
            /\ c.req.Language \in {LanguageGo, LanguageCPP}
            /\ c.ownExit = "build"
            /\ c.runErr = "exit" /\ c.exitCode # 0
            /\ c.phaseAtDeadline = "none"
            => /\ c.err = "nil"
               /\ c.result.ExitCode = c.exitCode
               /\ c.packed
               /\ c.result.ArtifactsTar.len = c.packedLen

\* C29: in the argument list built for `docker run` and for `podman run`,
\* every -e KEY=VALUE pair of the language's environment map stands before
\* the image name, and the image name is followed only by sh -c and the
\* run command.
C29_EnvBeforeImage ==
    tarOut.op = "args" =>
        LET args == tarOut.res
            n == Len(args)
        IN  /\ n >= 4
            /\ args[n - 3] = getLanguageImage(tarIn.language)
            /\ args[n - 2] = "sh"
            /\ args[n - 1] = "-c"
            /\ args[n] = GetRunCommand(tarIn.language).cmd
            /\ \A j \in 1..Len(tarIn.envVars) :
                  \E i \in 1..(n - 5) :
                      /\ args[i] = "-e"
                      /\ args[i + 1] = EnvAssignment(tarIn.envVars[j])

\* the argument that follows --name in a command line
NameArg(args) == args[(CHOOSE i \in 1..(Len(args) - 1) : args[i] = "--name") + 1]

\* the command line of the call's container run
CallRunArgs(c) ==
    IF c.variant = "docker"
    THEN DockerRunArgs(NameString(c.containerName), c.workdir, 256, FALSE,
                       <<>>, c.req.Language)
    ELSE PodmanRunArgs(NameString(c.containerName), c.workdir, 256, FALSE,
                       <<>>, c.req.Language)

\* Execute has returned the timeout result
TimedOut(c) == c.pc = "done" /\ c.err = "nil" /\ c.result = TimeoutResult(c)

\* the process of the call's last cmd.Run was ended by the kill of its
\* context
Killed(c) == (c.runErr = "exit" /\ c.exitCode = -1) \/ c.runErr = "ctx"

\* Docker and Podman: once the deadline has expired and the run command
\* has returned, one stop command has been issued, for the name passed to
\* run --name, before Execute returns the timeout result; a stop command
\* is issued on no other path
StopAfterDeadlineOnly(c) ==
    /\ IsContainerVariant(c.variant) =>
        /\ c.ctx = "DeadlineExceeded" /\ c.pc \in {"stop", "done"}
               => c.stops = <<c.containerName>>
        /\ TimedOut(c)
               => /\ c.stops = <<c.containerName>>
                  /\ NameArg(CallRunArgs(c)) = NameString(c.stops[1])
        /\ Len(c.stops) > 0
               => /\ c.ctx = "DeadlineExceeded"
                  /\ c.proc # "running"
                  /\ c.pc \in {"stop", "done"}
                  /\ c.pc = "done" => TimedOut(c)
    /\ c.variant = "local" => c.stops = <<>>

\* C25 (as the specification states it): in the Docker and Podman variants
\* a stop command naming the container passed to run --name is issued
\* after the run command has returned and before Execute returns the
\* timeout result, and on no other path; in the local variant the spawned
\* process has been killed before Execute returns the timeout result.
C25_KilledBeforeTimeoutResult ==
    \A p \in Calls :
        /\ StopAfterDeadlineOnly(calls[p])
        /\ (calls[p].variant = "local" /\ TimedOut(calls[p])
                /\ Len(calls[p].spawned) > 0)
               => calls[p].proc = "exited" /\ Killed(calls[p])

\* C25 (amended): the same for Docker and Podman; in the local variant no
\* process of the call is running when Execute returns the timeout
\* result, the deadline has expired, and a process that was running when
\* the deadline expired and did not exit by itself has been killed.
C25_ActiveTermination ==
    \A p \in Calls :
        LET c == calls[p]
        IN  /\ StopAfterDeadlineOnly(c)
            /\ c.variant = "local" /\ TimedOut(c)
                   => /\ c.proc # "running"
                      /\ c.ctx = "DeadlineExceeded"
                      /\ c.phaseAtDeadline = "run" /\ c.ownExit # "run"
                             => c.proc = "exited" /\ Killed(c)

\* a Docker or Podman call whose process was running at the deadline and
\* that returned the timeout result after its stop command
C25_Witness ==
    \E p \in Calls :
        /\ IsContainerVariant(calls[p].variant)
        /\ calls[p].pc = "done"
        /\ calls[p].phaseAtDeadline = "run"
        /\ TimedOut(calls[p])
        /\ calls[p].stops = <<calls[p].containerName>>

\* C26: when the backend process of the run exits on its own, with any
\* exit code, before the deadline fires, Execute returns the normal result
\* with the observed exit code and the packaged workspace and never the
\* timeout result, whenever the timer fires afterwards. (Stated leaving
\* the two packaging errors aside: a failed packaging and an archive over
\* the size limit.)
C26_OwnExitIsNeverTimeout ==
    \A p \in Calls :
        LET c == calls[p]
        IN  /\ c.pc = "done"
            /\ c.ownExit = "run"
            /\ c.phaseAtDeadline \notin {"build", "run"}
            /\ c.err \notin {"failed to create artifacts tar",
                             "artifacts size exceeds limit"}
            => /\ ~TimedOut(c)
               /\ c.err = "nil"
               /\ c.result.ExitCode = c.exitCode
               /\ c.result.Stdout = c.stdoutBuf
               /\ c.result.Stderr = c.stderrBuf
               /\ c.packed
               /\ c.result.ArtifactsTar.len = c.packedLen

\* C27: the workspace is packaged only after the request's container or
\* process has terminated: whenever Execute called
\* CreateTarFromDirWithExcludes, no process of the call was running and
\* its container was not running, also when the caller's context was
\* cancelled before the deadline fired.
C27_PackagedAfterTermination ==
    \A p \in Calls :
        calls[p].packed
            => /\ calls[p].proc # "running"
               /\ calls[p].containerAtPack # "running"

\* the archive of call c's request holds a regular file under the name of the
\* language's source file
HoldsSourceFile(c) ==
    /\ ~GetCodeFileName(c.req.Language).err
    /\ \E i \in 1..Len(c.req.WorkdirTar.entries) :
        /\ c.req.WorkdirTar.entries[i].name = GetCodeFileName(c.req.Language).name
        /\ c.req.WorkdirTar.entries[i].typeflag = "reg"

\* the backend of call c has been started and has not ended
BackendStarted(c) == c.pc \in {"build", "run"} /\ c.proc = "running"

\* C28: when the input archive holds a regular file under the name of the
\* language's source file (main.py, index.js, main.go, main.cpp), the file of
\* that name in the workspace holds, when the backend starts, the language's
\* prefix, the submitted code and the language's postfix, and not what the
\* archive held
C28_SubmittedCodeOverwritesArchive ==
    \A p \in Calls :
        (HoldsSourceFile(calls[p]) /\ BackendStarted(calls[p]))
            => /\ Join(calls[p].workdir,
                       GetCodeFileName(calls[p].req.Language).name) \in DOMAIN fs
               /\ fs[Join(calls[p].workdir,
                          GetCodeFileName(calls[p].req.Language).name)]
                    = RegNode(PrefixCode(calls[p].req.Language)
                              \o calls[p].req.Code
                              \o PostfixCode(calls[p].req.Language))

\* a started backend of a call whose archive held the source file's name with
\* other content than the workspace's file now has
C28_Witness ==
    \E p \in Calls :
        /\ HoldsSourceFile(calls[p])
        /\ BackendStarted(calls[p])
        /\ calls[p].req.Language = LanguageGo
        /\ "ExtractTar" \in {calls[p].steps[i] : i \in 1..Len(calls[p].steps)}
        /\ \E i \in 1..Len(calls[p].req.WorkdirTar.entries) :
            calls[p].req.WorkdirTar.entries[i].data
                # fs[Join(calls[p].workdir, FilenameGo)].data

\* C30: every configuration that passes Config.validate gets an executor from
\* NewExecutor: once the factory has been called, the startup has not failed
\* with "unsupported backend" and holds an executor
C30_ValidatedBackendIsConstructible ==
    (mode = "config" /\ validate(cfg) = "nil" /\ app.pc \in {"ready", "failed"}
        /\ loadEnvironmentVariables(cfg).err = "nil")
        => /\ app.err # "unsupported backend"
           /\ app.pc = "ready"
           /\ app.executor # "none"

====
